---- MODULE Spec2Model ----
(***************************************************************************)
(* Model of the plan search engine of hap (src/src/lib.rs): properties,    *)
(* Hoare triples, the indexed triple set, programs, the irrelevant         *)
(* property GC, the binary heap and the loop of a_star.                    *)
(*                                                                         *)
(* Costs are f64 in the source.  Every cost of the search is a sum of n    *)
(* additions of the constant epsilon = 1e-6, so a cost is modelled by the  *)
(* natural number n (a cost in units of epsilon).                          *)
(***************************************************************************)
EXTENDS Integers, Sequences, FiniteSets, TLC

(***************************************************************************)
(* Bounds of the model.                                                    *)
(***************************************************************************)
\* the longest hand-built triple list given to a_star
MaxTriples == 4
\* the number of calls of a_star in one process
MaxRuns == 2
\* the longest length given to sharding_round
MaxLength == 6
\* the largest number of ratios given to sharding_round
MaxDevices == 3

\* the nodes of a graph module given to load_fx_graph
MaxNodes == 4

(***************************************************************************)
(* Generic helpers.                                                        *)
(***************************************************************************)
Range(s) == { s[i] : i \in DOMAIN s }

Min(S) == CHOOSE x \in S : \A y \in S : x <= y

Max(S) == CHOOSE x \in S : \A y \in S : x >= y

RECURSIVE SortedSeq(_)
SortedSeq(S) == IF S = {} THEN <<>> ELSE <<Min(S)>> \o SortedSeq(S \ {Min(S)})

\* Option<T>: None is the empty sequence, Some(x) the one-element sequence
None == <<>>

Some(x) == <<x>>

(***************************************************************************)
(* Property and TensorRelation (enum Property, enum TensorRelation).       *)
(***************************************************************************)
HasTensor(tensor_id, rel, dim) == [tag |-> "HasTensor", id |-> tensor_id, rel |-> rel, dim |-> dim]

Finished == [tag |-> "Finished", id |-> 0, rel |-> "", dim |-> 0]

AllowCommunication(tensor_id) == [tag |-> "AllowCommunication", id |-> tensor_id, rel |-> "", dim |-> 0]

AllowComputation(op_id) == [tag |-> "AllowComputation", id |-> op_id, rel |-> "", dim |-> 0]

identity(tensor_id) == HasTensor(tensor_id, "Identity", 0)

gather(tensor_id, dim) == HasTensor(tensor_id, "Gather", dim)

reduce(tensor_id) == HasTensor(tensor_id, "Reduce", 0)

(***************************************************************************)
(* HoareTriple.  pre_conditions, post_conditions and                       *)
(* negative_post_conditions are vectors; profile describes the profile     *)
(* closure (which kind of closure, and what it captured).                  *)
(***************************************************************************)
DefaultProfileFn == [kind |-> "default", tensor_id |-> 0, forward |-> "", backward |-> "", op_id |-> 0]

HoareTriple(pre, post, neg, instruction, profile) ==
    [pre_conditions |-> pre, post_conditions |-> post, negative_post_conditions |-> neg,
     instruction |-> instruction, profile |-> profile]

(***************************************************************************)
(* The cost model: sharding_round, Profile, the profile closures and       *)
(* Profiler::get_time.  Sharding ratios are rationals with the common      *)
(* denominator RatioDen: the vector [0.25; 4] is <<1, 1, 1, 1>> over 4.    *)
(* The ClusterInfo of main holds numbers far beyond 32 bits; the model     *)
(* keeps the same four devices with device_flops and bandwidths scaled to  *)
(* small integers (flops and bytes per epsilon of time), all_reduce the    *)
(* slowest collective and all_to_all the fastest as in main.  get_time     *)
(* returns its time as a number of TimeDen-ths of epsilon, which is exact. *)
(***************************************************************************)
RatioDen == 4

cluster_info ==
    [device_flops |-> <<4, 4, 4, 4>>,
     all_reduce_bandwidth |-> 1,
     all_gather_bandwidth |-> 2,
     reduce_scatter_bandwidth |-> 2,
     all_to_all_bandwidth |-> 4]

\* a common multiple of device_flops and of the bandwidths of cluster_info
ClusterLcm == 4

TimeDen == RatioDen * ClusterLcm

RECURSIVE Sum(_)
Sum(s) == IF s = <<>> THEN 0 ELSE Head(s) + Sum(Tail(s))

RECURSIVE Product(_)
Product(s) == IF s = <<>> THEN 1 ELSE Head(s) * Product(Tail(s))

\* max_by_key returns the last of the maximal elements; the key
\* ratio - length / full_length is compared after multiplying by RatioDen * full_length
max_diff_index(full_length, sharding_ratios, sharding_lengths) ==
    LET key(i) == sharding_ratios[i] * full_length - sharding_lengths[i] * RatioDen
    IN  Max({ i \in DOMAIN sharding_ratios :
                \A j \in DOMAIN sharding_ratios : key(j) <= key(i) })

\* the while loop
RECURSIVE sharding_round_loop(_, _, _)
sharding_round_loop(full_length, sharding_ratios, sharding_lengths) ==
    IF Sum(sharding_lengths) < full_length
    THEN sharding_round_loop(full_length, sharding_ratios,
            [sharding_lengths EXCEPT
                ![max_diff_index(full_length, sharding_ratios, sharding_lengths)] = @ + 1])
    ELSE sharding_lengths

\* mutant of sharding_floors: the products are rounded up
sharding_ceilings(full_length, sharding_ratios) ==
    [i \in DOMAIN sharding_ratios |->
        (sharding_ratios[i] * full_length + RatioDen - 1) \div RatioDen]

\* the lengths before the loop: (x * full_length as f64) as usize is the floor of the product
sharding_floors(full_length, sharding_ratios) ==
    [i \in DOMAIN sharding_ratios |-> (sharding_ratios[i] * full_length) \div RatioDen]

sharding_round(full_length, sharding_ratios) ==
    sharding_round_loop(full_length, sharding_ratios, sharding_floors(full_length, sharding_ratios))

Profile(flops, all_reduce, all_gather, all_to_all, reduce_scatter) ==
    [flops |-> flops, all_reduce |-> all_reduce, all_gather |-> all_gather,
     all_to_all |-> all_to_all, reduce_scatter |-> reduce_scatter]

Profile_default == Profile(0, 0, 0, 0, 0)

\* Profile { <collective>: size, ..Default::default() }
CollectiveProfile(collective, size) ==
    [Profile_default EXCEPT ![collective] = size]

AssertionFailedMessage == "assertion failed: sharding_lengths.iter().sum::<usize>() <= full_length"

\* a call of sharding_round as its caller sees it: the Vec returned, or the panic of
\* the assert!, or the panic of max_by_key(..).unwrap() when there is no ratio
sharding_round_call(full_length, sharding_ratios) ==
    IF Sum(sharding_floors(full_length, sharding_ratios)) > full_length
    THEN [kind |-> "panic", message |-> AssertionFailedMessage, lengths |-> <<>>]
    ELSE IF sharding_ratios = <<>> /\ 0 < full_length
    THEN [kind |-> "panic", message |-> "called Option::unwrap() on a None value", lengths |-> <<>>]
    ELSE [kind |-> "returned", message |-> "",
          lengths |-> sharding_round(full_length, sharding_ratios)]

\* ProfileContext::get_shape_by_property: the result of sharding_round is indexed by dim
get_shape_by_property(ctx, property) ==
    LET raw_shape == ctx.profiler.rgraph.tensors[property.id + 1].shape
    IN  IF property.rel = "Gather"
        THEN [raw_shape EXCEPT ![property.dim + 1] =
                sharding_round(raw_shape[property.dim + 1], ctx.sharding_ratios)[property.dim + 1]]
        ELSE raw_shape

\* the flops closures of the three operators
op_flops(py_name, shapes) ==
    IF py_name = "torch.nn.functional.linear" THEN 3 * Product(shapes[1]) * shapes[2][1]
    ELSE IF py_name = "torch.sigmoid" THEN 3 * Product(shapes[1])
    ELSE Product(shapes[1])

\* the call of triple.profile: the pair (forward_profile, backward_profile)
profile(triple, ctx) ==
    LET fn == triple.profile
        size == Product(get_shape_by_property(ctx, identity(fn.tensor_id)))
    IN  IF fn.kind = "get_attr"
        THEN <<Profile_default, CollectiveProfile("all_reduce", size)>>
        ELSE IF fn.kind = "collective"
        THEN <<CollectiveProfile(fn.forward, size), CollectiveProfile(fn.backward, size)>>
        ELSE IF fn.kind = "comp"
        THEN LET shapes == [k \in DOMAIN triple.pre_conditions |->
                                get_shape_by_property(ctx, triple.pre_conditions[k])]
                 flops == op_flops(ctx.profiler.module_info.ops[fn.op_id + 1].py_name, shapes)
             IN  <<Profile(flops, 0, 0, 0, 0), Profile(2 * flops, 0, 0, 0, 0)>>
        ELSE <<Profile_default, Profile_default>>

\* Profiler::get_time, in TimeDen-ths of epsilon
get_time(profiler, p, sharding_ratios) ==
    LET c == profiler.cluster_info
        n == Min({Len(c.device_flops), Len(sharding_ratios)})
        computation_time ==
            Max({ p.flops * sharding_ratios[i] * (ClusterLcm \div c.device_flops[i]) : i \in 1..n })
        maximum_ratio == Max(Range(sharding_ratios))
        communication_time ==
            p.all_gather * maximum_ratio * (ClusterLcm \div c.all_gather_bandwidth)
            + p.all_reduce * maximum_ratio * (ClusterLcm \div c.all_reduce_bandwidth)
            + p.all_to_all * maximum_ratio * (ClusterLcm \div c.all_to_all_bandwidth)
            + p.reduce_scatter * maximum_ratio * (ClusterLcm \div c.reduce_scatter_bandwidth)
    IN  computation_time + communication_time

(***************************************************************************)
(* HoareTriple::get_cost.                                                  *)
(***************************************************************************)
\* const epsilon: f64 = 1e-6, the unit of cost of the model
epsilon == 1

\* the time the cost model gives to the forward and backward profiles of a triple,
\* in TimeDen-ths of epsilon
profile_time(triple, profiler, sharding_ratios) ==
    LET ctx == [profiler |-> profiler, sharding_ratios |-> sharding_ratios]
    IN  get_time(profiler, profile(triple, ctx)[1], sharding_ratios)
        + get_time(profiler, profile(triple, ctx)[2], sharding_ratios)

\* mutant of get_cost: the cost is the time of the profiles of the triple
get_cost_of_profile(triple, profiler, sharding_ratio) ==
    profile_time(triple, profiler, sharding_ratio) \div TimeDen

\* HoareTriple::get_cost: the commented-out body is not compiled, epsilon is returned
get_cost(triple, profiler, sharding_ratio) == epsilon

(***************************************************************************)
(* IndexedHoareTripleSet.  Triple ids are 0-based as in the source:        *)
(* triple id i is triples[i + 1].                                          *)
(***************************************************************************)
\* mutant of index_push: BTreeMap::insert(p, vec![id]) replaces the list of p
index_push_insert(index, p, id) == (p :> <<id>>) @@ index

\* BTreeMap::entry(p).or_default().push(id)
index_push(index, p, id) ==
    IF p \in DOMAIN index
    THEN [index EXCEPT ![p] = Append(@, id)]
    ELSE (p :> <<id>>) @@ index

RECURSIVE index_conditions(_, _, _, _)
index_conditions(index, conditions, k, id) ==
    IF k > Len(conditions) THEN index
    ELSE index_conditions(index_push(index, conditions[k], id), conditions, k + 1, id)

\* the for loop of new over the triples: i is the id of the next triple
RECURSIVE build_index(_, _)
build_index(maps, triples) ==
    IF maps.i >= Len(triples) THEN maps
    ELSE build_index(
            [pre_condition_index |->
                index_conditions(maps.pre_condition_index, triples[maps.i + 1].pre_conditions, 1, maps.i),
             post_condition_index |->
                index_conditions(maps.post_condition_index, triples[maps.i + 1].post_conditions, 1, maps.i),
             i |-> maps.i + 1],
            triples)

EmptyIndex == [p \in {} |-> <<>>]

IndexedHoareTripleSet_new(triples) ==
    LET maps == build_index([pre_condition_index |-> EmptyIndex, post_condition_index |-> EmptyIndex,
                             i |-> 0], triples)
    IN  [triples |-> triples,
         pre_condition_index |-> maps.pre_condition_index,
         post_condition_index |-> maps.post_condition_index]

get_triples_with_pre_condition(triple_set, property) ==
    IF property \in DOMAIN triple_set.pre_condition_index
    THEN triple_set.pre_condition_index[property] ELSE <<>>

get_triples_with_post_condition(triple_set, property) ==
    IF property \in DOMAIN triple_set.post_condition_index
    THEN triple_set.post_condition_index[property] ELSE <<>>

\* impl Index<HoareTripleId> for IndexedHoareTripleSet
triple_at(triple_set, triple_id) == triple_set.triples[triple_id + 1]

(***************************************************************************)
(* remove_irrelavent_properties.  The filter reads the set as it is before *)
(* any removal; the removals follow.                                       *)
(***************************************************************************)
\* mutant of is_irrelavent: a missing pre-condition is not required, only an unproduced one
is_irrelavent_unproduced(property, properties, triple_set) ==
    /\ property # Finished
    /\ \A triple_id \in Range(get_triples_with_pre_condition(triple_set, property)) :
          \E p \in Range(triple_at(triple_set, triple_id).pre_conditions) :
              get_triples_with_post_condition(triple_set, p) = <<>>

\* mutant of is_irrelavent: Finished is not exempted
is_irrelavent_finished_too(property, properties, triple_set) ==
    \A triple_id \in Range(get_triples_with_pre_condition(triple_set, property)) :
        \E p \in Range(triple_at(triple_set, triple_id).pre_conditions) :
            /\ p \notin properties
            /\ get_triples_with_post_condition(triple_set, p) = <<>>

\* mutant of is_irrelavent: one blocked triple is enough (any in place of all)
is_irrelavent_any_triple(property, properties, triple_set) ==
    /\ property # Finished
    /\ \E triple_id \in Range(get_triples_with_pre_condition(triple_set, property)) :
          \E p \in Range(triple_at(triple_set, triple_id).pre_conditions) :
              /\ p \notin properties
              /\ get_triples_with_post_condition(triple_set, p) = <<>>

\* mutant of is_irrelavent: a property that no triple consumes is kept
is_irrelavent_only_consumed(property, properties, triple_set) ==
    /\ property # Finished
    /\ get_triples_with_pre_condition(triple_set, property) # <<>>
    /\ \A triple_id \in Range(get_triples_with_pre_condition(triple_set, property)) :
          \E p \in Range(triple_at(triple_set, triple_id).pre_conditions) :
              /\ p \notin properties
              /\ get_triples_with_post_condition(triple_set, p) = <<>>

is_irrelavent(property, properties, triple_set) ==
    /\ property # Finished
    /\ \A triple_id \in Range(get_triples_with_pre_condition(triple_set, property)) :
          \E p \in Range(triple_at(triple_set, triple_id).pre_conditions) :
              /\ p \notin properties
              /\ get_triples_with_post_condition(triple_set, p) = <<>>

\* mutant of remove_irrelavent_properties: the removal stops after the first property
remove_one_irrelavent_property(properties, triple_set) ==
    LET irrelavent == { property \in properties : is_irrelavent(property, properties, triple_set) }
    IN  IF irrelavent = {} THEN properties
        ELSE properties \ { CHOOSE property \in irrelavent : TRUE }

remove_irrelavent_properties(properties, triple_set) ==
    LET irrelavent == { property \in properties : is_irrelavent(property, properties, triple_set) }
    IN  properties \ irrelavent

(***************************************************************************)
(* Program.                                                                *)
(***************************************************************************)
Program_empty(properties) ==
    [triple_ids |-> <<>>, properties |-> properties, cost |-> 0, ecost |-> 0]

\* the sharding ratios with_a_new_triple passes to get_cost: [0.25; 4], in quarters
SearchRatios == <<1, 1, 1, 1>>

\* mutant of filter_chain_collect: the negative post-conditions are removed last
collect_then_remove(properties, triple) ==
    (properties \cup Range(triple.post_conditions)) \ Range(triple.negative_post_conditions)

\* self.properties.iter().filter(not in negative_post).chain(post_conditions).collect()
filter_chain_collect(properties, triple) ==
    { p \in properties : p \notin Range(triple.negative_post_conditions) }
        \cup Range(triple.post_conditions)

\* mutant of with_a_new_triple: the new triple id is put in front of the others
with_a_new_triple_in_front(program, triple_id, triple_set, profiler) ==
    LET triple == triple_at(triple_set, triple_id)
        properties == filter_chain_collect(program.properties, triple)
    IN  [triple_ids |-> <<triple_id>> \o program.triple_ids,
         properties |-> remove_irrelavent_properties(properties, triple_set),
         cost |-> program.cost + get_cost(triple, profiler, SearchRatios),
         ecost |-> 0]

\* mutant of with_a_new_triple: the cost of the triple is subtracted, and the
\* estimate of the remaining cost is the cost of the triple
with_a_new_triple_cost_subtracted(program, triple_id, triple_set, profiler) ==
    LET triple == triple_at(triple_set, triple_id)
        properties == filter_chain_collect(program.properties, triple)
    IN  [triple_ids |-> Append(program.triple_ids, triple_id),
         properties |-> remove_irrelavent_properties(properties, triple_set),
         cost |-> program.cost - get_cost(triple, profiler, SearchRatios),
         ecost |-> get_cost(triple, profiler, SearchRatios)]

with_a_new_triple(program, triple_id, triple_set, profiler) ==
    LET triple == triple_at(triple_set, triple_id)
        properties == filter_chain_collect(program.properties, triple)
    IN  [triple_ids |-> Append(program.triple_ids, triple_id),
         properties |-> remove_irrelavent_properties(properties, triple_set),
         cost |-> program.cost + get_cost(triple, profiler, SearchRatios),
         ecost |-> 0]

\* mutant of is_complete: any property at all makes a program complete
is_complete_any_property(program) == \E p \in program.properties : TRUE

\* mutant of is_complete: a reduced tensor makes a program complete
is_complete_on_reduce(program) == \E p \in program.properties : p.rel = "Reduce"

is_complete(program) == \E p \in program.properties : p = Finished

(***************************************************************************)
(* ProgramHeapEntry and the BinaryHeap of a_star.  The heap is the array   *)
(* of std::collections::BinaryHeap; its comparisons are those of           *)
(* PartialOrd for ProgramHeapEntry, which reverses the order of total_cost.*)
(***************************************************************************)
ProgramHeapEntry_new(program) == [program |-> program, total_cost |-> program.cost + program.ecost]

\* mutant of entry_le: the order of cmp, without the reverse of partial_cmp
entry_le_not_reversed(a, b) == a.total_cost <= b.total_cost

\* a <= b in the order of partial_cmp (cmp reversed)
entry_le(a, b) == a.total_cost >= b.total_cost

\* sift_up(start = 0, pos): the array is 1-based here, the parent of k is k \div 2
RECURSIVE sift_up(_, _, _)
sift_up(data, pos, element) ==
    IF pos > 1 /\ ~entry_le(element, data[pos \div 2])
    THEN sift_up([data EXCEPT ![pos] = data[pos \div 2]], pos \div 2, element)
    ELSE [data EXCEPT ![pos] = element]

heap_push(data, entry) == sift_up(Append(data, entry), Len(data) + 1, entry)

\* sift_down_to_bottom(0): the hole goes down to a leaf along the greater children,
\* then the element is sifted up from there
RECURSIVE sift_down_to_bottom(_, _, _)
sift_down_to_bottom(data, pos, element) ==
    LET end == Len(data)
        left == 2 * pos
    IN  IF left + 1 <= end
        THEN LET child == IF entry_le(data[left], data[left + 1]) THEN left + 1 ELSE left
             IN  sift_down_to_bottom([data EXCEPT ![pos] = data[child]], child, element)
        ELSE IF left = end
        THEN sift_up([data EXCEPT ![pos] = data[left]], left, element)
        ELSE sift_up(data, pos, element)

\* BinaryHeap::pop on a non-empty heap: the entry removed and the heap left
heap_pop(data) ==
    LET last == data[Len(data)]
        rest == SubSeq(data, 1, Len(data) - 1)
    IN  IF rest = <<>> THEN [item |-> last, heap |-> rest]
        ELSE [item |-> rest[1], heap |-> sift_down_to_bottom(rest, 1, last)]

(***************************************************************************)
(* RGraph, ModuleInfo and load_fx_graph.  Node, tensor, op, placeholder    *)
(* and parameter ids are 0-based: id i is element i + 1 of its vector.     *)
(* A node of the Python graph is [op, target, args, shape]: args are the   *)
(* meta ids of its input nodes (its position in the graph, 0-based), shape *)
(* is what input_shape / get_shape_of_param_or_buffer give for it.         *)
(***************************************************************************)
PyNode(op, target, args, shape) == [op |-> op, target |-> target, args |-> args, shape |-> shape]

RInstruction(kind, id) == [kind |-> kind, id |-> id]

RNode(inputs, outputs, instruction) == [inputs |-> inputs, outputs |-> outputs, instruction |-> instruction]

RTensor(producer, shape, communicatable) ==
    [producer |-> producer, consumers |-> <<>>, shape |-> shape, communicatable |-> communicatable]

RGraph_default == [nodes |-> <<>>, tensors |-> <<>>]

ModuleInfo_default == [placeholders |-> <<>>, parameters |-> <<>>, ops |-> <<>>]

\* the state of the loop of load_fx_graph; results[i + 1] is the result of the node of meta id i
ParserContext(n_nodes) ==
    [graph |-> RGraph_default, module_info |-> ModuleInfo_default,
     results |-> [i \in 1..n_nodes |-> None], panicked |-> FALSE]

\* graph[tensor_id].consumers.push(node_id)
push_consumer(tensors, tensor_id, node_id) ==
    [tensors EXCEPT ![tensor_id + 1].consumers = Append(@, node_id)]

RECURSIVE push_consumers(_, _, _)
push_consumers(tensors, tensor_ids, node_id) ==
    IF tensor_ids = <<>> THEN tensors
    ELSE push_consumers(push_consumer(tensors, Head(tensor_ids), node_id), Tail(tensor_ids), node_id)

\* a node with one output tensor and no input: placeholder and get_attr
add_source(ctx, py_id, py_node, kind) ==
    LET id == IF kind = "Placeholder" THEN Len(ctx.module_info.placeholders)
              ELSE Len(ctx.module_info.parameters)
        node_id == Len(ctx.graph.nodes)
        tensor_id == Len(ctx.graph.tensors)
    IN  [ctx EXCEPT
            !.module_info = IF kind = "Placeholder"
                            THEN [@ EXCEPT !.placeholders = Append(@, py_node.target)]
                            ELSE [@ EXCEPT !.parameters = Append(@, py_node.target)],
            !.graph.nodes = Append(@, RNode(<<>>, <<tensor_id>>, RInstruction(kind, id))),
            !.graph.tensors = Append(@, RTensor(node_id, py_node.shape, FALSE)),
            !.results[py_id + 1] = Some(tensor_id)]

\* the part the three call_function handlers share: one op node, one output tensor
add_op(ctx, py_id, py_node, output_shape, communicatable) ==
    LET inputs == [k \in DOMAIN py_node.args |-> ctx.results[py_node.args[k] + 1][1]]
        node_id == Len(ctx.graph.nodes)
        tensor_id == Len(ctx.graph.tensors)
        op_id == Len(ctx.module_info.ops)
    IN  [ctx EXCEPT
            !.graph.tensors = push_consumers(
                Append(@, RTensor(node_id, output_shape, communicatable)), inputs, node_id),
            !.graph.nodes = Append(@, RNode(inputs, <<tensor_id>>, RInstruction("Op", op_id))),
            !.module_info.ops = Append(@, [py_name |-> py_node.target]),
            !.results[py_id + 1] = Some(tensor_id)]

input_shape(ctx, py_node, k) == ctx.graph.tensors[ctx.results[py_node.args[k] + 1][1] + 1].shape

\* handle_linear: args are (input, weight, bias); the shape assertions panic
handle_linear(ctx, py_id, py_node) ==
    LET input == input_shape(ctx, py_node, 1)
        weight == input_shape(ctx, py_node, 2)
        bias == input_shape(ctx, py_node, 3)
    IN  IF \/ input = <<>>
           \/ weight = <<>>
           \/ weight # <<weight[1], input[Len(input)]>>
           \/ bias # <<weight[1]>>
        THEN [ctx EXCEPT !.panicked = TRUE]
        ELSE add_op(ctx, py_id, py_node, SubSeq(input, 1, Len(input) - 1) \o <<weight[1]>>, TRUE)

handle_sigmoid(ctx, py_id, py_node) ==
    add_op(ctx, py_id, py_node, input_shape(ctx, py_node, 1), FALSE)

handle_sum(ctx, py_id, py_node) == add_op(ctx, py_id, py_node, <<>>, FALSE)

has_output(graph) == \E i \in DOMAIN graph.nodes : graph.nodes[i].instruction.kind = "Output"

\* mutant of add_output: a second output node is not rejected
add_output_unchecked(ctx, py_id, py_node) ==
    LET node_id == Len(ctx.graph.nodes)
        input_tensor_id == ctx.results[py_node.args[1] + 1][1]
    IN  [ctx EXCEPT
            !.graph.tensors = push_consumer(@, input_tensor_id, node_id),
            !.graph.nodes = Append(@, RNode(<<input_tensor_id>>, <<>>, RInstruction("Output", 0)))]

add_output(ctx, py_id, py_node) ==
    IF has_output(ctx.graph) THEN [ctx EXCEPT !.panicked = TRUE]
    ELSE LET node_id == Len(ctx.graph.nodes)
             input_tensor_id == ctx.results[py_node.args[1] + 1][1]
         IN  [ctx EXCEPT
                 !.graph.tensors = push_consumer(@, input_tensor_id, node_id),
                 !.graph.nodes = Append(@, RNode(<<input_tensor_id>>, <<>>, RInstruction("Output", 0)))]

\* one iteration of the loop of load_fx_graph
load_node(ctx, py_id, py_node) ==
    IF ctx.panicked THEN ctx
    ELSE IF py_node.op = "placeholder" THEN add_source(ctx, py_id, py_node, "Placeholder")
    ELSE IF py_node.op = "get_attr" THEN add_source(ctx, py_id, py_node, "GetAttr")
    ELSE IF py_node.op = "output" THEN add_output(ctx, py_id, py_node)
    ELSE IF py_node.target = "torch.nn.functional.linear" THEN handle_linear(ctx, py_id, py_node)
    ELSE IF py_node.target = "torch.sigmoid" THEN handle_sigmoid(ctx, py_id, py_node)
    ELSE handle_sum(ctx, py_id, py_node)

RECURSIVE load_nodes(_, _, _)
load_nodes(ctx, py_nodes, py_id) ==
    IF py_id >= Len(py_nodes) THEN ctx
    ELSE load_nodes(load_node(ctx, py_id, py_nodes[py_id + 1]), py_nodes, py_id + 1)

load_fx_graph(py_nodes) == load_nodes(ParserContext(Len(py_nodes)), py_nodes, 0)

(***************************************************************************)
(* analyze_rgraph.                                                         *)
(***************************************************************************)
RECURSIVE Flatten(_)
Flatten(ss) == IF ss = <<>> THEN <<>> ELSE Head(ss) \o Flatten(Tail(ss))

Instruction(name, arg, dim, dim2) == [name |-> name, arg |-> arg, dim |-> dim, dim2 |-> dim2]

\* the profile closures of analyze_rgraph
GetAttrProfileFn(tensor_id) ==
    [kind |-> "get_attr", tensor_id |-> tensor_id, forward |-> "", backward |-> "all_reduce", op_id |-> 0]

CollectiveProfileFn(tensor_id, forward, backward) ==
    [kind |-> "collective", tensor_id |-> tensor_id, forward |-> forward, backward |-> backward, op_id |-> 0]

CompProfileFn(op_id) ==
    [kind |-> "comp", tensor_id |-> 0, forward |-> "", backward |-> "", op_id |-> op_id]

\* the closure add_triple: negative_post_conditions is always empty
\* mutant of add_triple: the pre-conditions are consumed
add_triple_consuming(pre, post, instruction, profile_fn) ==
    HoareTriple(pre, post, pre, instruction, profile_fn)

add_triple(pre, post, instruction, profile_fn) == HoareTriple(pre, post, <<>>, instruction, profile_fn)

n_dims(tensor) == Len(tensor.shape)

\* basics: the triples of one node
basic_triples(rgraph, module_info, node) ==
    IF node.instruction.kind = "Placeholder"
    THEN LET tensor_id == node.outputs[1]
             name == module_info.placeholders[node.instruction.id + 1]
         IN  <<add_triple(<<>>, <<identity(tensor_id)>>,
                          Instruction("placeholder_unsharded", name, 0, 0), DefaultProfileFn)>>
             \o [d \in 1..n_dims(rgraph.tensors[tensor_id + 1]) |->
                    add_triple(<<>>, <<gather(tensor_id, d - 1)>>,
                               Instruction("placeholder_shard", name, d - 1, 0), DefaultProfileFn)]
    ELSE IF node.instruction.kind = "GetAttr"
    THEN LET tensor_id == node.outputs[1]
             name == module_info.parameters[node.instruction.id + 1]
         IN  <<add_triple(<<>>, <<identity(tensor_id)>>,
                          Instruction("get_attr_unsharded", name, 0, 0), GetAttrProfileFn(tensor_id))>>
             \o [d \in 1..n_dims(rgraph.tensors[tensor_id + 1]) |->
                    add_triple(<<>>, <<gather(tensor_id, d - 1)>>,
                               Instruction("get_attr_shard", name, d - 1, 0), DefaultProfileFn)]
    ELSE IF node.instruction.kind = "Output"
    THEN <<add_triple(<<reduce(node.inputs[1])>>, <<Finished>>,
                      Instruction("output", "", 0, 0), DefaultProfileFn)>>
    ELSE <<>>

\* mutant of all_to_all_triples: only the pairs i < j
all_to_all_triples_one_way(tensor_id, n) ==
    Flatten([i \in 1..n |-> Flatten([j \in 1..n |->
        IF i >= j THEN <<>>
        ELSE <<add_triple(<<gather(tensor_id, i - 1)>>, <<gather(tensor_id, j - 1)>>,
                          Instruction("all_to_all", "", i - 1, j - 1),
                          CollectiveProfileFn(tensor_id, "all_to_all", "all_to_all"))>>])])

\* all_to_all for the pairs (i, j), i # j, j running fastest
all_to_all_triples(tensor_id, n) ==
    Flatten([i \in 1..n |-> Flatten([j \in 1..n |->
        IF i = j THEN <<>>
        ELSE <<add_triple(<<gather(tensor_id, i - 1)>>, <<gather(tensor_id, j - 1)>>,
                          Instruction("all_to_all", "", i - 1, j - 1),
                          CollectiveProfileFn(tensor_id, "all_to_all", "all_to_all"))>>])])

\* communication & dynamic slice: the triples of one tensor
communication_triples(tensor_id, tensor) ==
    IF ~tensor.communicatable THEN <<>>
    ELSE Flatten([d \in 1..n_dims(tensor) |->
            << add_triple(<<gather(tensor_id, d - 1)>>, <<identity(tensor_id)>>,
                          Instruction("all_gather", "", d - 1, 0),
                          CollectiveProfileFn(tensor_id, "all_gather", "reduce_scatter")),
               add_triple(<<identity(tensor_id)>>, <<gather(tensor_id, d - 1)>>,
                          Instruction("dynamic_slice", "", d - 1, 0), DefaultProfileFn),
               add_triple(<<reduce(tensor_id)>>, <<gather(tensor_id, d - 1)>>,
                          Instruction("reduce_scatter", "", d - 1, 0),
                          CollectiveProfileFn(tensor_id, "reduce_scatter", "all_gather")) >>])
         \o <<add_triple(<<reduce(tensor_id)>>, <<identity(tensor_id)>>,
                         Instruction("all_reduce", "", 0, 0),
                         CollectiveProfileFn(tensor_id, "all_reduce", "all_reduce"))>>
         \o all_to_all_triples(tensor_id, n_dims(tensor))

\* the closure add_comp_triple
add_comp_triple(module_info, pre, post, op_id) ==
    add_triple(pre, post, Instruction(module_info.ops[op_id + 1].py_name, "", 0, 0), CompProfileFn(op_id))

identities(tensor_ids) == [k \in DOMAIN tensor_ids |-> identity(tensor_ids[k])]

linear_triples(rgraph, module_info, node, op_id) ==
    <<add_comp_triple(module_info, identities(node.inputs), identities(node.outputs), op_id)>>
    \o [d \in 1..(n_dims(rgraph.tensors[node.inputs[1] + 1]) - 1) |->
          add_comp_triple(module_info,
              <<gather(node.inputs[1], d - 1), identity(node.inputs[2]), identity(node.inputs[3])>>,
              <<gather(node.outputs[1], d - 1)>>, op_id)]
    \o <<add_comp_triple(module_info,
              <<identity(node.inputs[1]), gather(node.inputs[2], 0), gather(node.inputs[3], 0)>>,
              <<gather(node.outputs[1], n_dims(rgraph.tensors[node.outputs[1] + 1]) - 1)>>, op_id)>>

sigmoid_triples(rgraph, module_info, node, op_id) ==
    <<add_comp_triple(module_info, identities(node.inputs), identities(node.outputs), op_id)>>
    \o [d \in 1..n_dims(rgraph.tensors[node.inputs[1] + 1]) |->
          add_comp_triple(module_info, <<gather(node.inputs[1], d - 1)>>,
                          <<gather(node.outputs[1], d - 1)>>, op_id)]

\* mutant of sum_triples: the sharded rows keep the sharding, as for sigmoid
sum_triples_keeping_gather(rgraph, module_info, node, op_id) ==
    <<add_comp_triple(module_info, identities(node.inputs), identities(node.outputs), op_id)>>
    \o [d \in 1..n_dims(rgraph.tensors[node.inputs[1] + 1]) |->
          add_comp_triple(module_info, <<gather(node.inputs[1], d - 1)>>,
                          <<gather(node.outputs[1], d - 1)>>, op_id)]
    \o <<add_comp_triple(module_info, <<reduce(node.inputs[1])>>, <<reduce(node.outputs[1])>>, op_id)>>

sum_triples(rgraph, module_info, node, op_id) ==
    <<add_comp_triple(module_info, identities(node.inputs), identities(node.outputs), op_id)>>
    \o [d \in 1..n_dims(rgraph.tensors[node.inputs[1] + 1]) |->
          add_comp_triple(module_info, <<gather(node.inputs[1], d - 1)>>,
                          <<reduce(node.outputs[1])>>, op_id)]
    \o <<add_comp_triple(module_info, <<reduce(node.inputs[1])>>, <<reduce(node.outputs[1])>>, op_id)>>

\* the macro for_each_op: the nodes whose op has the name op_name
is_op(module_info, node, op_name) ==
    /\ node.instruction.kind = "Op"
    /\ module_info.ops[node.instruction.id + 1].py_name = op_name

analyze_rgraph(rgraph, module_info) ==
    Flatten([i \in DOMAIN rgraph.nodes |-> basic_triples(rgraph, module_info, rgraph.nodes[i])])
    \o Flatten([t \in DOMAIN rgraph.tensors |-> communication_triples(t - 1, rgraph.tensors[t])])
    \o Flatten([i \in DOMAIN rgraph.nodes |->
          IF is_op(module_info, rgraph.nodes[i], "torch.nn.functional.linear")
          THEN linear_triples(rgraph, module_info, rgraph.nodes[i], rgraph.nodes[i].instruction.id)
          ELSE <<>>])
    \o Flatten([i \in DOMAIN rgraph.nodes |->
          IF is_op(module_info, rgraph.nodes[i], "torch.sigmoid")
          THEN sigmoid_triples(rgraph, module_info, rgraph.nodes[i], rgraph.nodes[i].instruction.id)
          ELSE <<>>])
    \o Flatten([i \in DOMAIN rgraph.nodes |->
          IF is_op(module_info, rgraph.nodes[i], "torch.sum")
          THEN sum_triples(rgraph, module_info, rgraph.nodes[i], rgraph.nodes[i].instruction.id)
          ELSE <<>>])

(***************************************************************************)
(* Ticker of a_star (Ticker::new(5000)) and the lines written to stderr.   *)
(***************************************************************************)
iter_per_print == 5000

TickerLine(iter_count) == [kind |-> "ticker", iter_count |-> iter_count, triple_ids |-> <<>>]

\* main after a_star returned: "===== Result =====" and best_program.show
ResultLines(best) == [kind |-> "result", iter_count |-> 0, triple_ids |-> best.triple_ids]

\* Ticker::tick: the lines it adds to stderr
tick_lines(iter_count) ==
    IF (iter_count + 1) % iter_per_print = 0 THEN <<TickerLine(iter_count + 1)>> ELSE <<>>

(***************************************************************************)
(* The triple lists given to a_star that are not derived from a graph:     *)
(* every sub-list of at most MaxTriples triples of Pool, in the order of   *)
(* Pool.  They follow the token patterns of the heuristics module          *)
(* (a token in pre and negative_post, a token re-issued in post).          *)
(***************************************************************************)
Pool ==
    << HoareTriple(<<>>, <<reduce(0)>>, <<>>, Instruction("source", "", 0, 0), DefaultProfileFn),
       HoareTriple(<<AllowComputation(0)>>, <<gather(0, 0)>>, <<AllowComputation(0)>>, Instruction("token_shard", "", 0, 0), DefaultProfileFn),
       HoareTriple(<<gather(0, 0)>>, <<identity(0)>>, <<>>, Instruction("all_gather", "", 0, 0), DefaultProfileFn),
       HoareTriple(<<identity(0)>>, <<reduce(0)>>, <<>>, Instruction("bridge", "", 0, 0), DefaultProfileFn),
       HoareTriple(<<reduce(0)>>, <<Finished>>, <<>>, Instruction("output", "", 0, 0), DefaultProfileFn),
       HoareTriple(<<gather(0, 0), AllowComputation(0)>>, <<identity(0), AllowComputation(0)>>,
                   <<AllowComputation(0), gather(0, 0)>>, Instruction("token_gather", "", 0, 0), DefaultProfileFn),
       HoareTriple(<<identity(0)>>, <<Finished>>, <<>>, Instruction("output_identity", "", 0, 0), DefaultProfileFn),
       HoareTriple(<<gather(0, 0)>>, <<AllowCommunication(0)>>, <<>>, Instruction("unused_token", "", 0, 0), DefaultProfileFn) >>

PoolLists ==
    { [k \in 1..Cardinality(I) |-> Pool[SortedSeq(I)[k]]] :
        I \in { J \in SUBSET (1..Len(Pool)) : J # {} /\ Cardinality(J) <= MaxTriples } }

\* default properties are scheduling tokens and tensors already placed, never Finished
PoolInitialProperties == SUBSET { AllowComputation(0), gather(0, 0) }

PoolInputs ==
    { [rgraph |-> RGraph_default, module_info |-> ModuleInfo_default,
       triples |-> l, initial_properties |-> ip] : l \in PoolLists, ip \in PoolInitialProperties }

(***************************************************************************)
(* The Python graphs given to main.  main calls a_star with the triples of *)
(* analyze_rgraph and no default property; a_star is also called with the  *)
(* tensors of the placeholders and parameters already placed.              *)
(***************************************************************************)
FxPlaceholderOutput ==
    << PyNode("placeholder", "x", <<>>, <<4>>),
       PyNode("output", "output", <<0>>, <<>>) >>

FxSum ==
    << PyNode("placeholder", "x", <<>>, <<4>>),
       PyNode("call_function", "torch.sum", <<0>>, <<>>),
       PyNode("output", "output", <<1>>, <<>>) >>

FxSigmoid ==
    << PyNode("placeholder", "x", <<>>, <<8, 16>>),
       PyNode("call_function", "torch.sigmoid", <<0>>, <<>>),
       PyNode("output", "output", <<1>>, <<>>) >>

FxSigmoidSum ==
    << PyNode("placeholder", "x", <<>>, <<8, 16>>),
       PyNode("call_function", "torch.sigmoid", <<0>>, <<>>),
       PyNode("call_function", "torch.sum", <<1>>, <<>>),
       PyNode("output", "output", <<2>>, <<>>) >>

FxLinearSum ==
    << PyNode("placeholder", "a", <<>>, <<4, 2>>),
       PyNode("get_attr", "w", <<>>, <<8, 2>>),
       PyNode("get_attr", "b", <<>>, <<8>>),
       PyNode("call_function", "torch.nn.functional.linear", <<0, 1, 2>>, <<>>),
       PyNode("call_function", "torch.sum", <<3>>, <<>>),
       PyNode("output", "output", <<4>>, <<>>) >>

FxGraphs == { FxPlaceholderOutput, FxSum, FxSigmoid, FxSigmoidSum, FxLinearSum }

\* the tensors of placeholders and parameters, replicated or sharded on dim 0
SourceProperties(rgraph) ==
    UNION { { identity(rgraph.nodes[i].outputs[1]), gather(rgraph.nodes[i].outputs[1], 0) } :
            i \in { j \in DOMAIN rgraph.nodes : rgraph.nodes[j].inputs = <<>> } }

GraphInput(py_nodes, ip) ==
    LET loaded == load_fx_graph(py_nodes)
    IN  [rgraph |-> loaded.graph, module_info |-> loaded.module_info,
         triples |-> analyze_rgraph(loaded.graph, loaded.module_info), initial_properties |-> ip]

GraphInputs ==
    UNION { { GraphInput(g, ip) : ip \in SUBSET SourceProperties(load_fx_graph(g).graph) } :
            g \in FxGraphs }

Inputs == PoolInputs \cup GraphInputs

(***************************************************************************)
(* State.                                                                  *)
(***************************************************************************)
VARIABLES
    rgraph,              \* the RGraph of load_fx_graph
    module_info,         \* the ModuleInfo of load_fx_graph
    triples,             \* the Vec<HoareTriple> given to IndexedHoareTripleSet::new
    initial_properties,  \* default_properties
    triple_set,          \* the IndexedHoareTripleSet of the running search
    pc,                  \* "idle": no search runs; "loop": inside the loop of a_star;
                         \* "aborted": the module initializer panicked
    heap,                \* the BinaryHeap of a_star
    best_program,        \* Option<Program>
    property_cache,      \* BTreeMap<BTreeSet<Property>, f64>
    program,             \* the program of the current loop iteration (None before the first pop)
    iter_count,          \* ticker.iter_count
    CTRLC_RECEIVED,      \* the static AtomicBool
    results,             \* the outcome of every finished call, oldest first
    stderr,              \* the lines written to stderr
    round_length,        \* full_length of a call of sharding_round
    round_ratios,        \* sharding_ratios of that call, in RatioDen-ths
    round_result,        \* Option of the outcome of that call
    CTRLC_TRAPPED,       \* the static AtomicBool
    set_handler_calls,   \* the calls of ctrlc::set_handler made in this process
    parser_ctx,          \* the ParserContext of a run of load_fx_graph, node after node
    expanded             \* the property sets of the programs that reached the for loop of the
                         \* running call of a_star, oldest first

vars == <<rgraph, module_info, triples, initial_properties, triple_set, pc, heap, best_program, property_cache,
          program, iter_count, CTRLC_RECEIVED, results, stderr,
          round_length, round_ratios, round_result, CTRLC_TRAPPED, set_handler_calls,
          parser_ctx, expanded>>

input_vars == <<rgraph, module_info, triples, initial_properties>>

round_vars == <<round_length, round_ratios, round_result>>

init_vars == <<CTRLC_TRAPPED, set_handler_calls>>

\* the Profiler main hands to a_star
Profiler == [rgraph |-> rgraph, module_info |-> module_info, cluster_info |-> cluster_info]

\* The outcome of a call: what a_star returned (program) or the message of its panic;
\* best_at_end records the value the local best_program had when the call ended.
Returned(best) ==
    [kind |-> "returned", message |-> "", program |-> Some(best), best_at_end |-> Some(best)]

\* a panic unwinds out of a_star: no program is returned
Panic(message, best) ==
    [kind |-> "panic", message |-> message, program |-> None, best_at_end |-> best]

InteruptedMessage == "interupted"

UnwrapNoneMessage == "called Option::unwrap() on a None value"

Init ==
    /\ \E input \in Inputs :
        /\ rgraph = input.rgraph
        /\ module_info = input.module_info
        /\ triples = input.triples
        /\ initial_properties = input.initial_properties
    /\ triple_set = IndexedHoareTripleSet_new(<<>>)
    /\ pc = "idle"
    /\ heap = <<>>
    /\ best_program = None
    /\ property_cache = [s \in {} |-> 0]
    /\ program = None
    /\ iter_count = 0
    /\ expanded = <<>>
    /\ CTRLC_RECEIVED = FALSE
    /\ results = <<>>
    /\ stderr = <<>>
    /\ round_length = 0
    /\ round_ratios = <<>>
    /\ round_result = None
    /\ CTRLC_TRAPPED = FALSE
    /\ set_handler_calls = 0
    /\ parser_ctx = ParserContext(0)

(***************************************************************************)
(* Program::find_available_triples.                                        *)
(***************************************************************************)
\* the candidates: the triples indexed under some property of the program
candidates(self, ts) ==
    UNION { Range(get_triples_with_pre_condition(ts, p)) : p \in self.properties }

\* mutant of find_available_triples: the order of the triples changes from one call
\* of a_star to the next, as the iteration order of a hashed collection does
find_available_triples_hashed(self, ts) ==
    LET ids == SortedSeq({ triple_id \in candidates(self, ts) :
                   LET triple == triple_at(ts, triple_id)
                   IN  /\ \A p \in Range(triple.pre_conditions) : p \in self.properties
                       /\ \E p \in Range(triple.post_conditions) : p \notin self.properties })
    IN  IF Len(results) % 2 = 0 THEN ids ELSE [i \in 1..Len(ids) |-> ids[Len(ids) + 1 - i]]

\* mutant of find_available_triples: every candidate is returned, the filter is left out
find_available_triples_unfiltered(self, ts) == SortedSeq(candidates(self, ts))

\* the ids come out of a BTreeSet: in increasing order
find_available_triples(self, ts) ==
    SortedSeq({ triple_id \in candidates(self, ts) :
        LET triple == triple_at(ts, triple_id)
        IN  /\ \A p \in Range(triple.pre_conditions) : p \in self.properties
            /\ \E p \in Range(triple.post_conditions) : p \notin self.properties })

(***************************************************************************)
(* a_star.                                                                 *)
(***************************************************************************)
\* BTreeMap::insert
\* mutant of cache_insert: the map is replaced by the new entry
cache_insert_forgetting(cache, key, value) == (key :> value)

cache_insert(cache, key, value) == (key :> value) @@ cache

\* the cache of a new call: the initial properties at cost 0
new_property_cache(properties) == cache_insert([s \in {} |-> 0], properties, 0)

\* best_program.as_ref().map(|p| p.cost < program.cost).unwrap_or(false)
worse_than_best(best, p) == best # None /\ best[1].cost < p.cost

\* the cached cost of the properties of p is strictly lower than the cost of p
superseded(cache, p) == p.properties \in DOMAIN cache /\ cache[p.properties] < p.cost

skipped(best, cache, p) == worse_than_best(best, p) \/ superseded(cache, p)

\* mutant of replaces_best: a program of the same cost replaces the best one too
replaces_best_on_ties(best, p) == best = None \/ best[1].cost >= p.cost

\* best_program.as_ref().map(|p| p.cost > program.cost).unwrap_or(true)
replaces_best(best, p) == best = None \/ best[1].cost > p.cost

\* mutant of expand: a successor is discarded only when the cached cost is strictly lower
RECURSIVE expand_unless_strictly_cheaper(_, _, _, _, _, _)
expand_unless_strictly_cheaper(ids, k, p, ts, profiler, hc) ==
    IF k > Len(ids) THEN hc
    ELSE LET new_program == with_a_new_triple(p, ids[k], ts, profiler)
             cached == /\ new_program.properties \in DOMAIN hc.cache
                       /\ hc.cache[new_program.properties] < new_program.cost
         IN  expand_unless_strictly_cheaper(ids, k + 1, p, ts, profiler,
                    IF cached THEN hc
                    ELSE [heap |-> heap_push(hc.heap, ProgramHeapEntry_new(new_program)),
                          cache |-> cache_insert(hc.cache, new_program.properties, new_program.cost)])

\* mutant of expand: every successor is cached and pushed, whatever the cache holds
RECURSIVE expand_every_successor(_, _, _, _, _, _)
expand_every_successor(ids, k, p, ts, profiler, hc) ==
    IF k > Len(ids) THEN hc
    ELSE LET new_program == with_a_new_triple(p, ids[k], ts, profiler)
         IN  expand_every_successor(ids, k + 1, p, ts, profiler,
                    [heap |-> heap_push(hc.heap, ProgramHeapEntry_new(new_program)),
                     cache |-> cache_insert(hc.cache, new_program.properties, new_program.cost)])

\* the for loop over find_available_triples: hc is the heap and the cache
RECURSIVE expand(_, _, _, _, _, _)
expand(ids, k, p, ts, profiler, hc) ==
    IF k > Len(ids) THEN hc
    ELSE LET new_program == with_a_new_triple(p, ids[k], ts, profiler)
             cached == /\ new_program.properties \in DOMAIN hc.cache
                       /\ hc.cache[new_program.properties] <= new_program.cost
         IN  expand(ids, k + 1, p, ts, profiler,
                    IF cached THEN hc
                    ELSE [heap |-> heap_push(hc.heap, ProgramHeapEntry_new(new_program)),
                          cache |-> cache_insert(hc.cache, new_program.properties, new_program.cost)])

\* the local state of a_star is dropped when the call ends
EndCall(outcome, lines) ==
    /\ pc' = "idle"
    /\ heap' = <<>>
    /\ best_program' = None
    /\ property_cache' = [s \in {} |-> 0]
    /\ program' = None
    /\ iter_count' = 0
    /\ expanded' = <<>>
    /\ results' = Append(results, outcome)
    /\ stderr' = stderr \o lines

\* ctrlc::set_handler: the first call of the process installs the handler, a later call
\* returns Err(MultipleHandlers)
set_handler(calls) == IF calls = 0 THEN "Ok" ELSE "Err"

\* the module initializer, run at each initialization of the module in the process,
\* between two calls of main: CTRLC_TRAPPED is loaded and nowhere stored; the result of
\* set_handler is unwrapped, and the panic of an Err ends the initialization
py_module_initializer ==
    /\ pc = "idle"
    /\ IF ~CTRLC_TRAPPED
       THEN /\ set_handler_calls' = set_handler_calls + 1
            /\ pc' = IF set_handler(set_handler_calls) = "Ok" THEN pc ELSE "aborted"
       ELSE UNCHANGED <<set_handler_calls, pc>>
    /\ UNCHANGED <<input_vars, parser_ctx, round_vars, CTRLC_TRAPPED, triple_set, heap, best_program, property_cache,
                   program, iter_count, expanded, CTRLC_RECEIVED, results, stderr>>

\* main up to the first pop: the triple set is indexed, the seed pushed and cached
call_a_star ==
    /\ pc = "idle"
    /\ set_handler_calls > 0
    /\ Len(results) < MaxRuns
    /\ triple_set' = IndexedHoareTripleSet_new(triples)
    /\ heap' = heap_push(<<>>, ProgramHeapEntry_new(Program_empty(initial_properties)))
    /\ best_program' = None
    /\ property_cache' = new_property_cache(initial_properties)
    /\ program' = None
    /\ iter_count' = 0
    /\ expanded' = <<>>
    /\ pc' = "loop"
    /\ UNCHANGED <<input_vars, parser_ctx, round_vars, init_vars, CTRLC_RECEIVED, results, stderr>>

\* the handler installed by ctrlc::set_handler
ctrlc_handler ==
    /\ pc # "aborted"
    /\ set_handler_calls > 0
    /\ CTRLC_RECEIVED = FALSE
    /\ CTRLC_RECEIVED' = TRUE
    /\ UNCHANGED <<input_vars, parser_ctx, round_vars, init_vars, triple_set, pc, heap, best_program, property_cache, program,
                   iter_count, expanded, results, stderr>>

\* mutant of ctrlc_received_load: the flag is only looked at before the first tick
ctrlc_load_before_first_tick == CTRLC_RECEIVED /\ iter_count = 0

\* CTRLC_RECEIVED.load(Relaxed), evaluated after every pop
ctrlc_received_load == CTRLC_RECEIVED

\* mutant of unwrap: unwrap_or_default
unwrap_or_default(best) ==
    IF best = None THEN Returned(Program_empty({})) ELSE Returned(best[1])

\* best_program.unwrap(): the program, or the panic of Option::unwrap
unwrap(best) ==
    IF best = None THEN Panic(UnwrapNoneMessage, best) ELSE Returned(best[1])

\* main after a_star: nothing is printed after a panic
main_lines(outcome) ==
    IF outcome.kind = "returned" THEN <<ResultLines(outcome.program[1])>> ELSE <<>>

\* mutant of pop_interrupted: the flag is taken with swap(false), which clears it
pop_interrupted_clearing_flag ==
    /\ pc = "loop"
    /\ heap # <<>>
    /\ ctrlc_received_load
    /\ EndCall(Panic(InteruptedMessage, best_program), <<TickerLine(iter_count)>>)
    /\ CTRLC_RECEIVED' = FALSE
    /\ UNCHANGED <<input_vars, parser_ctx, round_vars, init_vars, triple_set>>

\* a pop with the flag set: panic!("interupted"); the ticker is dropped while unwinding
pop_interrupted ==
    /\ pc = "loop"
    /\ heap # <<>>
    /\ ctrlc_received_load
    /\ EndCall(Panic(InteruptedMessage, best_program), <<TickerLine(iter_count)>>)
    /\ UNCHANGED <<input_vars, parser_ctx, round_vars, init_vars, triple_set, CTRLC_RECEIVED>>

\* mutant of pop_skip: the entry is looked at and left on the heap
pop_skip_without_pop ==
    /\ pc = "loop"
    /\ heap # <<>>
    /\ ~ctrlc_received_load
    /\ skipped(best_program, property_cache, heap_pop(heap).item.program) = TRUE
    /\ program' = Some(heap_pop(heap).item.program)
    /\ UNCHANGED <<input_vars, parser_ctx, round_vars, init_vars, triple_set, pc, heap, best_program, property_cache,
                   iter_count, expanded, CTRLC_RECEIVED, results, stderr>>

\* a pop followed by one of the two continue statements (tick is not reached)
pop_skip ==
    /\ pc = "loop"
    /\ heap # <<>>
    /\ ~ctrlc_received_load
    /\ skipped(best_program, property_cache, heap_pop(heap).item.program) = TRUE
    /\ heap' = heap_pop(heap).heap
    /\ program' = Some(heap_pop(heap).item.program)
    /\ UNCHANGED <<input_vars, parser_ctx, round_vars, init_vars, triple_set, pc, best_program, property_cache, iter_count, expanded,
                   CTRLC_RECEIVED, results, stderr>>

\* a pop of a complete program
pop_complete ==
    /\ pc = "loop"
    /\ heap # <<>>
    /\ ~ctrlc_received_load
    /\ LET p == heap_pop(heap).item.program
       IN  /\ skipped(best_program, property_cache, p) = FALSE
           /\ is_complete(p)
           /\ best_program' = IF replaces_best(best_program, p) THEN Some(p) ELSE best_program
           /\ program' = Some(p)
    /\ heap' = heap_pop(heap).heap
    /\ iter_count' = iter_count + 1
    /\ stderr' = stderr \o tick_lines(iter_count)
    /\ UNCHANGED <<input_vars, parser_ctx, round_vars, init_vars, triple_set, pc, property_cache, CTRLC_RECEIVED, results,
                   expanded>>

\* a pop of an incomplete program: its successors are cached and pushed
pop_expand ==
    /\ pc = "loop"
    /\ heap # <<>>
    /\ ~ctrlc_received_load
    /\ LET p == heap_pop(heap).item.program
           hc == expand(find_available_triples(p, triple_set), 1, p, triple_set, Profiler,
                        [heap |-> heap_pop(heap).heap, cache |-> property_cache])
       IN  /\ skipped(best_program, property_cache, p) = FALSE
           /\ ~is_complete(p)
           /\ heap' = hc.heap
           /\ property_cache' = hc.cache
           /\ program' = Some(p)
           /\ expanded' = Append(expanded, p.properties)
    /\ iter_count' = iter_count + 1
    /\ stderr' = stderr \o tick_lines(iter_count)
    /\ UNCHANGED <<input_vars, parser_ctx, round_vars, init_vars, triple_set, pc, best_program, CTRLC_RECEIVED, results>>

\* the heap is empty and a complete program was found: it is returned and main shows it
return_best ==
    /\ pc = "loop"
    /\ heap = <<>>
    /\ best_program # None
    /\ EndCall(unwrap(best_program), <<TickerLine(iter_count)>> \o main_lines(unwrap(best_program)))
    /\ UNCHANGED <<input_vars, parser_ctx, round_vars, init_vars, triple_set, CTRLC_RECEIVED>>

\* the heap is empty and best_program is None: best_program.unwrap() panics
unwrap_none ==
    /\ pc = "loop"
    /\ heap = <<>>
    /\ best_program = None
    /\ EndCall(unwrap(best_program), <<TickerLine(iter_count)>> \o main_lines(unwrap(best_program)))
    /\ UNCHANGED <<input_vars, parser_ctx, round_vars, init_vars, triple_set, CTRLC_RECEIVED>>

Next ==
    \/ py_module_initializer
    \/ call_a_star
    \/ ctrlc_handler
    \/ pop_interrupted
    \/ pop_skip
    \/ pop_complete
    \/ pop_expand
    \/ return_best
    \/ unwrap_none

Spec == Init /\ [][Next]_vars

(***************************************************************************)
(* Fourth specification: the search with the cancellation flag never set.  *)
(* The handler never runs, so no pop finds the flag set.  a_star is        *)
(* sequential code on the thread that called it: once the loop is entered  *)
(* the thread keeps executing it, iteration after iteration and then the   *)
(* return.  This weak fairness is stated on a_star_iteration, which says   *)
(* of a step of the loop only what it does to program (the popped program, *)
(* or None when the call ends): a step of TerminationNext that changes     *)
(* program in the loop is a pop or the end of the call, so the condition   *)
(* asks for no more than weak fairness of those steps.                     *)
(***************************************************************************)
a_star_iteration ==
    /\ pc = "loop"
    /\ program' = IF heap = <<>> THEN None ELSE Some(heap_pop(heap).item.program)

TerminationNext ==
    \/ py_module_initializer
    \/ call_a_star
    \/ pop_skip
    \/ pop_complete
    \/ pop_expand
    \/ return_best
    \/ unwrap_none

TerminationSpec == Init /\ [][TerminationNext]_vars /\ WF_program(a_star_iteration)

(***************************************************************************)
(* sharding_round called on its own: every length up to MaxLength with     *)
(* every vector of at most MaxDevices ratios, each a number of RatioDen-ths*)
(* between 0 and 1; no search runs.                                        *)
(***************************************************************************)
RatioVectors == UNION { [1..n -> 0..RatioDen] : n \in 0..MaxDevices }

RoundInit ==
    /\ rgraph = RGraph_default
    /\ module_info = ModuleInfo_default
    /\ triples = <<>>
    /\ initial_properties = {}
    /\ triple_set = IndexedHoareTripleSet_new(<<>>)
    /\ pc = "idle"
    /\ heap = <<>>
    /\ best_program = None
    /\ property_cache = [s \in {} |-> 0]
    /\ program = None
    /\ iter_count = 0
    /\ expanded = <<>>
    /\ CTRLC_RECEIVED = FALSE
    /\ results = <<>>
    /\ stderr = <<>>
    /\ round_length \in 0..MaxLength
    /\ round_ratios \in RatioVectors
    /\ round_result = None
    /\ CTRLC_TRAPPED = FALSE
    /\ set_handler_calls = 0
    /\ parser_ctx = ParserContext(0)

call_sharding_round ==
    /\ round_result = None
    /\ round_result' = Some(sharding_round_call(round_length, round_ratios))
    /\ UNCHANGED <<input_vars, parser_ctx, init_vars, triple_set, pc, heap, best_program, property_cache, program,
                   iter_count, expanded, CTRLC_RECEIVED, results, stderr, round_length, round_ratios>>

RoundNext == call_sharding_round

RoundSpec == RoundInit /\ [][RoundNext]_vars

(***************************************************************************)
(* Third specification: the loop of load_fx_graph run node after node on   *)
(* a graph module of MaxNodes nodes.  Each step loads one more fx node:    *)
(* a placeholder, a get_attr, one of the three functions or an output,     *)
(* whose arguments are earlier nodes that have a tensor.                   *)
(***************************************************************************)
TensorNodes(ctx) == { i \in 0..(Len(ctx.graph.nodes) - 1) : ctx.results[i + 1] # None }

PyNodeChoices(ctx) ==
    { PyNode("placeholder", "x", <<>>, shape) : shape \in { <<4, 2>>, <<4>> } }
    \cup { PyNode("get_attr", "w", <<>>, shape) : shape \in { <<8, 2>>, <<8>> } }
    \cup { PyNode("call_function", target, <<a>>, <<>>) :
              target \in { "torch.sigmoid", "torch.sum" }, a \in TensorNodes(ctx) }
    \cup { PyNode("call_function", "torch.nn.functional.linear", <<a, b, c>>, <<>>) :
              a \in TensorNodes(ctx), b \in TensorNodes(ctx), c \in TensorNodes(ctx) }
    \cup { PyNode("output", "output", <<a>>, <<>>) : a \in TensorNodes(ctx) }

LoaderInit ==
    /\ rgraph = RGraph_default
    /\ module_info = ModuleInfo_default
    /\ triples = <<>>
    /\ initial_properties = {}
    /\ triple_set = IndexedHoareTripleSet_new(<<>>)
    /\ pc = "idle"
    /\ heap = <<>>
    /\ best_program = None
    /\ property_cache = [s \in {} |-> 0]
    /\ program = None
    /\ iter_count = 0
    /\ expanded = <<>>
    /\ CTRLC_RECEIVED = FALSE
    /\ results = <<>>
    /\ stderr = <<>>
    /\ round_length = 0
    /\ round_ratios = <<>>
    /\ round_result = None
    /\ CTRLC_TRAPPED = FALSE
    /\ set_handler_calls = 0
    /\ parser_ctx = ParserContext(MaxNodes)

\* one iteration of the for loop over the nodes of the graph module
load_fx_node ==
    /\ ~parser_ctx.panicked
    /\ Len(parser_ctx.graph.nodes) < MaxNodes
    /\ \E py_node \in PyNodeChoices(parser_ctx) :
          parser_ctx' = load_node(parser_ctx, Len(parser_ctx.graph.nodes), py_node)
    /\ UNCHANGED <<input_vars, round_vars, init_vars, triple_set, pc, heap, best_program, property_cache,
                   program, iter_count, expanded, CTRLC_RECEIVED, results, stderr>>

LoaderNext == load_fx_node

LoaderSpec == LoaderInit /\ [][LoaderNext]_vars

(***************************************************************************)
(* Definitions the properties below are stated with.                       *)
(***************************************************************************)
HeapPrograms == { heap[i].program : i \in DOMAIN heap }

TripleIds == 0..(Len(triples) - 1)

\* the availability rule: every pre-condition holds and some post-condition is missing
SpecAvailable(properties, triple) ==
    /\ \A q \in Range(triple.pre_conditions) : q \in properties
    /\ \E q \in Range(triple.post_conditions) : q \notin properties

\* firing a triple on a property set, without any GC
Fire(properties, triple) ==
    (properties \ Range(triple.negative_post_conditions)) \cup Range(triple.post_conditions)

CanFire(properties, triple) == Range(triple.pre_conditions) \subseteq properties

\* the property sets that sequences of at most k fireable triples produce
RECURSIVE SetsWithin(_, _, _)
SetsWithin(ts, properties, k) ==
    IF k <= 0 THEN {properties}
    ELSE LET prev == SetsWithin(ts, properties, k - 1)
         IN  prev \cup { Fire(x[1], ts[x[2]]) :
                         x \in { y \in prev \X DOMAIN ts : CanFire(y[1], ts[y[2]]) } }

\* a sequence of fewer than n fireable triples reaches Finished
FinishedWithin(ts, properties, n) == \E S \in SetsWithin(ts, properties, n - 1) : Finished \in S

ReturnedResults == { r \in Range(results) : r.kind = "returned" }

(***************************************************************************)
(* C1: for every program P and every triple t (whatever the size of its    *)
(* pre-condition set), find_available_triples(P) contains t iff every      *)
(* pre-condition of t is in P.properties and some post-condition is not.   *)
(* Violated: a triple without pre-conditions is indexed under no property  *)
(* and is never a candidate.                                               *)
(***************************************************************************)
C1_AvailableIffRule ==
    pc = "loop" =>
        \A p \in HeapPrograms : \A id \in TripleIds :
            (id \in Range(find_available_triples(p, triple_set)))
                <=> SpecAvailable(p.properties, triple_at(triple_set, id))

(***************************************************************************)
(* C2: whenever a_star returns a program, no sequence of triples fired one *)
(* after another from the initial properties, each with its pre-conditions *)
(* holding, reaches Finished at a strictly lower accumulated cost (every   *)
(* triple costs epsilon, so: with fewer triples).                          *)
(***************************************************************************)
C2_ReturnedIsOptimal ==
    \A r \in ReturnedResults :
        ~FinishedWithin(triples, initial_properties, r.program[1].cost \div epsilon)

(***************************************************************************)
(* C3: for placeholder X (rank 1) -> sum -> Output with the triples of     *)
(* analyze_rgraph and no default property, the search returns the plan     *)
(* placeholder_shard(X, dim 0), sum Gather(X,0) -> Reduce(Y), output.      *)
(***************************************************************************)
SumGraphInput ==
    /\ rgraph = load_fx_graph(FxSum).graph
    /\ initial_properties = {}

IsSumPlan(p) ==
    /\ Len(p.triple_ids) = 3
    /\ LET t1 == triples[p.triple_ids[1] + 1]
           t2 == triples[p.triple_ids[2] + 1]
           t3 == triples[p.triple_ids[3] + 1]
       IN  /\ t1.instruction.name = "placeholder_shard"
           /\ t1.post_conditions = <<gather(0, 0)>>
           /\ t2.instruction.name = "torch.sum"
           /\ t2.pre_conditions = <<gather(0, 0)>>
           /\ t2.post_conditions = <<reduce(1)>>
           /\ t3.instruction.name = "output"
           /\ t3.pre_conditions = <<reduce(1)>>
           /\ t3.post_conditions = <<Finished>>

C3_SumGraphPlan ==
    SumGraphInput =>
        \A r \in Range(results) :
            r.message # InteruptedMessage => r.kind = "returned" /\ IsSumPlan(r.program[1])

(***************************************************************************)
(* The programs a step of the loop pushes: the entries of the new heap     *)
(* that the old heap does not hold.  In such a step program' is the popped *)
(* program the for loop extends.                                           *)
(***************************************************************************)
LoopStep == pc = "loop" /\ pc' = "loop"

Pushed == { heap'[i].program : i \in DOMAIN heap' } \ HeapPrograms

\* the entries of the heap that extend the program of the current iteration by one triple
Children ==
    IF program = None THEN {}
    ELSE { e \in HeapPrograms :
             /\ Len(e.triple_ids) = Len(program[1].triple_ids) + 1
             /\ SubSeq(e.triple_ids, 1, Len(program[1].triple_ids)) = program[1].triple_ids }

LastTriple(e) == triples[e.triple_ids[Len(e.triple_ids)] + 1]

(***************************************************************************)
(* C4: every program P' the loop pushes is with_a_new_triple(P, t) of the  *)
(* popped program P: P'.triple_ids is P.triple_ids followed by t, and      *)
(* P'.properties is the GC of (P.properties minus the negative             *)
(* post-conditions of t) union the post-conditions of t; a property in     *)
(* both the negative post-conditions and the post-conditions of t is in    *)
(* the set the GC is given.                                                *)
(***************************************************************************)
C4_NewTripleProperties ==
    [][LoopStep =>
        \A e \in Pushed : \E id \in TripleIds :
            LET t == triple_at(triple_set, id)
                P == program'[1]
                before_gc == (P.properties \ Range(t.negative_post_conditions))
                                 \cup Range(t.post_conditions)
            IN  /\ e.triple_ids = Append(P.triple_ids, id)
                /\ e.properties = remove_irrelavent_properties(before_gc, triple_set)
                /\ filter_chain_collect(P.properties, t) = before_gc
                /\ \A q \in Range(t.negative_post_conditions) \cap Range(t.post_conditions) :
                       q \in filter_chain_collect(P.properties, t)]_vars

\* a pushed program whose last triple has a property in both lists, kept by the GC,
\* and removes another property the popped program had
C4_Witness ==
    \E e \in Children :
        LET t == LastTriple(e)
        IN  /\ \E q \in Range(t.negative_post_conditions) \cap Range(t.post_conditions) :
                   q \in e.properties /\ q \in program[1].properties
            /\ \E q \in Range(t.negative_post_conditions) \ Range(t.post_conditions) :
                   q \in program[1].properties /\ q \notin e.properties

(***************************************************************************)
(* C5: every program P' the loop pushes has the cost of the popped program *)
(* plus the time the cost model gives to the forward and the backward      *)
(* profile of the new triple, under the cluster and the sharding ratios of *)
(* the search (costs are in units of epsilon, times in TimeDen-ths of it). *)
(***************************************************************************)
C5_CostIsProfileTime ==
    [][LoopStep =>
        \A e \in Pushed :
            (e.cost - program'[1].cost) * TimeDen
                = profile_time(LastTriple(e), Profiler, SearchRatios)]_vars

(***************************************************************************)
(* Reachability of Finished.  Without negative post-conditions firing only *)
(* adds properties, and the saturation of the initial properties is the    *)
(* union of every reachable set; with them the reachable sets are          *)
(* enumerated.                                                             *)
(***************************************************************************)
RECURSIVE Saturation(_, _)
Saturation(ts, properties) ==
    LET next == properties \cup
                UNION { Range(ts[i].post_conditions) : i \in { j \in DOMAIN ts : CanFire(properties, ts[j]) } }
    IN  IF next = properties THEN properties ELSE Saturation(ts, next)

RECURSIVE ReachableSets(_, _)
ReachableSets(ts, sets) ==
    LET next == sets \cup { Fire(x[1], ts[x[2]]) :
                            x \in { y \in sets \X DOMAIN ts : CanFire(y[1], ts[y[2]]) } }
    IN  IF next = sets THEN sets ELSE ReachableSets(ts, next)

Infeasible ==
    IF \A i \in DOMAIN triples : triples[i].negative_post_conditions = <<>>
    THEN Finished \notin Saturation(triples, initial_properties)
    ELSE \A S \in ReachableSets(triples, {initial_properties}) : Finished \notin S

(***************************************************************************)
(* C6: a_star never returns a program whose properties lack Finished, and  *)
(* when no sequence of fireable triples reaches Finished from the initial  *)
(* properties every call that is not interrupted ends in the panic of      *)
(* best_program.unwrap() on None.                                          *)
(***************************************************************************)
C6_InfeasibleNeverReturns ==
    /\ \A r \in ReturnedResults : Finished \in r.program[1].properties
    /\ Infeasible =>
           \A r \in Range(results) :
               /\ r.kind = "panic"
               /\ r.program = None
               /\ r.message # InteruptedMessage =>
                      r.message = UnwrapNoneMessage /\ r.best_at_end = None

\* the sigmoid graph, whose Output consumes a tensor nothing reduces: the search
\* expanded the seed, emptied the heap and panicked
C6_Witness ==
    /\ rgraph = load_fx_graph(FxSigmoid).graph
    /\ initial_properties # {}
    /\ Infeasible
    /\ \E i \in DOMAIN results :
           /\ results[i].message = UnwrapNoneMessage
           /\ \E k \in DOMAIN stderr : stderr[k].kind = "ticker" /\ stderr[k].iter_count > 0

(***************************************************************************)
(* C7: the flag is read at every pop.  Whenever the handler has set it and *)
(* a program is popped, the call ends at that pop with the panic           *)
(* "interupted": no program is returned, whatever best_program holds, and  *)
(* stderr only gets the line of the dropped ticker, no line of a plan.     *)
(* The handler may set the flag in any state.                              *)
(***************************************************************************)
C7_InterruptAtEveryPop ==
    [][(pc = "loop" /\ heap # <<>> /\ CTRLC_RECEIVED) =>
        /\ pc' = "idle"
        /\ results' = Append(results, [kind |-> "panic", message |-> InteruptedMessage,
                                       program |-> None, best_at_end |-> best_program])
        /\ stderr' = Append(stderr, TickerLine(iter_count))]_vars

\* a call interrupted after ticks of the loop, when a complete program was already found
C7_Witness ==
    \E i \in DOMAIN results :
        /\ results[i].message = InteruptedMessage
        /\ results[i].program = None
        /\ results[i].best_at_end # None
        /\ stderr[Len(stderr)].kind = "ticker"
        /\ stderr[Len(stderr)].iter_count > 0

(***************************************************************************)
(* C8: a call has three mutually distinguishable outcomes: a returned      *)
(* complete program, the infeasibility error (the heap emptied without a   *)
(* complete program) and the cancellation error (the flag set at a pop);   *)
(* the two errors are reported as different kinds of error.                *)
(***************************************************************************)
IsReturnedOutcome(r) ==
    r.kind = "returned" /\ r.program # None /\ Finished \in r.program[1].properties

IsInfeasibleOutcome(r) ==
    r.kind # "returned" /\ r.program = None /\ r.message = UnwrapNoneMessage /\ r.best_at_end = None

IsCancelledOutcome(r) ==
    r.kind # "returned" /\ r.program = None /\ r.message = InteruptedMessage

C8_DistinctErrorKinds ==
    /\ \A r \in Range(results) :
           IsReturnedOutcome(r) \/ IsInfeasibleOutcome(r) \/ IsCancelledOutcome(r)
    /\ \A r1, r2 \in Range(results) :
           IsInfeasibleOutcome(r1) /\ IsCancelledOutcome(r2) => r1.kind # r2.kind

FinishingPositions(p) ==
    { k \in DOMAIN p.triple_ids : Finished \in Range(triples[p.triple_ids[k] + 1].post_conditions) }

C10_OneFinishingTriple ==
    \A r \in ReturnedResults : Cardinality(FinishingPositions(r.program[1])) = 1

\* a returned program of several triples, on an input with two triples producing Finished
C10_Witness ==
    \E r \in ReturnedResults :
        /\ Len(r.program[1].triple_ids) >= 2
        /\ Cardinality({ i \in DOMAIN triples : Finished \in Range(triples[i].post_conditions) }) >= 2

(***************************************************************************)
(* C11: in every program a_star returns, triple_ids is the order in which  *)
(* the triples were fired (each triple has its pre-conditions in the       *)
(* properties its predecessors left, GC included, and the properties of    *)
(* the program are those left by the last one), the last triple produces   *)
(* Finished and no triple before it does; a step of the loop that pops a   *)
(* complete program pushes nothing.                                        *)
(***************************************************************************)
\* the properties left by firing ids[k..] in order from properties, None when a
\* triple is reached whose pre-conditions do not hold
RECURSIVE FiredInOrder(_, _, _)
FiredInOrder(ids, k, properties) ==
    IF k > Len(ids) THEN Some(properties)
    ELSE IF ~CanFire(properties, triples[ids[k] + 1]) THEN None
    ELSE FiredInOrder(ids, k + 1,
            remove_irrelavent_properties(Fire(properties, triples[ids[k] + 1]), triple_set))

ProducesFinished(id) == Finished \in Range(triples[id + 1].post_conditions)

C11_OutputTripleIsLast ==
    [][/\ \A r \in { x \in Range(results') : x.kind = "returned" } :
            LET p == r.program[1]
            IN  /\ p.triple_ids # <<>>
                /\ ProducesFinished(p.triple_ids[Len(p.triple_ids)])
                /\ \A k \in 1..(Len(p.triple_ids) - 1) : ~ProducesFinished(p.triple_ids[k])
                /\ FiredInOrder(p.triple_ids, 1, initial_properties) = Some(p.properties)
       /\ (LoopStep /\ program' # None /\ Finished \in program'[1].properties) => Pushed = {}]_vars

\* a returned program of at least three triples
C11_Witness ==
    \E r \in ReturnedResults : Len(r.program[1].triple_ids) >= 3

(***************************************************************************)
(* C12: every program P' the loop pushes for a popped program P has        *)
(* P'.cost >= P.cost and P'.ecost = 0.                                     *)
(***************************************************************************)
C12_CostMonotone ==
    [][LoopStep => \A e \in Pushed : e.cost >= program'[1].cost /\ e.ecost = 0]_vars

\* a program pushed for a popped program that already has a cost
C12_Witness ==
    \E e \in Children : program[1].cost >= 2 * epsilon /\ e.cost >= program[1].cost

(***************************************************************************)
(* C13: in the IndexedHoareTripleSet of a search, for every triple t and   *)
(* property p, the id of t is in get_triples_with_pre_condition(p) exactly *)
(* when p is a pre-condition of t and in get_triples_with_post_condition(p)*)
(* exactly when p is a post-condition of t; a property that no triple      *)
(* lists yields the empty list.                                            *)
(***************************************************************************)
\* the properties of the triples and of the seed, and one that nothing mentions
PropertyUniverse ==
    UNION { Range(triples[i].pre_conditions) \cup Range(triples[i].post_conditions)
                \cup Range(triples[i].negative_post_conditions) : i \in DOMAIN triples }
        \cup initial_properties \cup {AllowCommunication(7)}

C13_IndexExact ==
    pc = "loop" =>
        \A p \in PropertyUniverse :
            /\ \A id \in TripleIds :
                /\ id \in Range(get_triples_with_pre_condition(triple_set, p))
                       <=> p \in Range(triples[id + 1].pre_conditions)
                /\ id \in Range(get_triples_with_post_condition(triple_set, p))
                       <=> p \in Range(triples[id + 1].post_conditions)
            /\ Range(get_triples_with_pre_condition(triple_set, p)) \subseteq TripleIds
            /\ Range(get_triples_with_post_condition(triple_set, p)) \subseteq TripleIds
            /\ (\A i \in DOMAIN triples : p \notin Range(triples[i].pre_conditions))
                   => get_triples_with_pre_condition(triple_set, p) = <<>>
            /\ (\A i \in DOMAIN triples : p \notin Range(triples[i].post_conditions))
                   => get_triples_with_post_condition(triple_set, p) = <<>>

\* an index with a property listed by several triples and a property listed by none
C13_Witness ==
    /\ pc = "loop"
    /\ \E p \in PropertyUniverse : Len(get_triples_with_pre_condition(triple_set, p)) >= 2
    /\ \E p \in PropertyUniverse : Len(get_triples_with_post_condition(triple_set, p)) >= 2
    /\ \E p \in initial_properties :
           /\ get_triples_with_pre_condition(triple_set, p) = <<>>
           /\ get_triples_with_post_condition(triple_set, p) = <<>>

(***************************************************************************)
(* C14: whenever remove_irrelavent_properties removes a property p from a  *)
(* set S, no triple whose pre-conditions are all in S has p among its      *)
(* pre-conditions.  S ranges over the sets with_a_new_triple gives to the  *)
(* GC: the properties of a program of the search after one of its          *)
(* available triples.                                                      *)
(***************************************************************************)
SearchPrograms == HeapPrograms \cup (IF program = None THEN {} ELSE {program[1]})

\* the sets handed to remove_irrelavent_properties
GcArguments ==
    { filter_chain_collect(P.properties, triple_at(triple_set, id)) :
        <<P, id>> \in { x \in SearchPrograms \X TripleIds :
                          x[2] \in Range(find_available_triples(x[1], triple_set)) } }

Removed(S) == S \ remove_irrelavent_properties(S, triple_set)

C14_GcIsConservative ==
    pc = "loop" =>
        \A S \in GcArguments : \A p \in Removed(S) : \A id \in TripleIds :
            Range(triples[id + 1].pre_conditions) \subseteq S
                => p \notin Range(triples[id + 1].pre_conditions)

\* the GC removes a property that is a pre-condition of some triple, and keeps another
C14_Witness ==
    /\ pc = "loop"
    /\ \E S \in GcArguments :
           /\ \E p \in Removed(S) : get_triples_with_pre_condition(triple_set, p) # <<>>
           /\ remove_irrelavent_properties(S, triple_set) # {}

(***************************************************************************)
(* The search with the GC step left out: a_star as the loop runs it when   *)
(* no interrupt arrives, with with_a_new_triple keeping the set of         *)
(* filter_chain_collect as it is.                                          *)
(***************************************************************************)
with_a_new_triple_without_gc(p, triple_id, ts, profiler) ==
    [triple_ids |-> Append(p.triple_ids, triple_id),
     properties |-> filter_chain_collect(p.properties, triple_at(ts, triple_id)),
     cost |-> p.cost + get_cost(triple_at(ts, triple_id), profiler, SearchRatios),
     ecost |-> 0]

RECURSIVE expand_without_gc(_, _, _, _, _, _)
expand_without_gc(ids, k, p, ts, profiler, hc) ==
    IF k > Len(ids) THEN hc
    ELSE LET new_program == with_a_new_triple_without_gc(p, ids[k], ts, profiler)
             cached == /\ new_program.properties \in DOMAIN hc.cache
                       /\ hc.cache[new_program.properties] <= new_program.cost
         IN  expand_without_gc(ids, k + 1, p, ts, profiler,
                    IF cached THEN hc
                    ELSE [heap |-> heap_push(hc.heap, ProgramHeapEntry_new(new_program)),
                          cache |-> cache_insert(hc.cache, new_program.properties, new_program.cost)])

\* one iteration of the loop on the local state st of a_star
step_without_gc(st, ts, profiler) ==
    LET p == heap_pop(st.heap).item.program
        rest == heap_pop(st.heap).heap
    IN  IF skipped(st.best, st.cache, p) THEN [st EXCEPT !.heap = rest]
        ELSE IF is_complete(p)
        THEN [st EXCEPT !.heap = rest,
                        !.best = IF replaces_best(st.best, p) THEN Some(p) ELSE st.best]
        ELSE LET hc == expand_without_gc(find_available_triples(p, ts), 1, p, ts, profiler,
                                         [heap |-> rest, cache |-> st.cache])
             IN  [st EXCEPT !.heap = hc.heap, !.cache = hc.cache]

RECURSIVE loop_without_gc(_, _, _)
loop_without_gc(st, ts, profiler) ==
    IF st.heap = <<>> THEN unwrap(st.best)
    ELSE loop_without_gc(step_without_gc(st, ts, profiler), ts, profiler)

a_star_without_gc ==
    loop_without_gc([heap |-> heap_push(<<>>, ProgramHeapEntry_new(Program_empty(initial_properties))),
                     best |-> None,
                     cache |-> new_property_cache(initial_properties)],
                    triple_set, Profiler)

(***************************************************************************)
(* C15: the GC does not change the result of the search: a call that is    *)
(* not interrupted and the search without the GC step on the same triples  *)
(* and initial properties either both end in the panic of unwrap on None   *)
(* or both return a complete program, and the two programs cost the same.  *)
(***************************************************************************)
C15_GcKeepsResult ==
    (results # <<>> /\ results[Len(results)].message # InteruptedMessage) =>
        LET with_gc == results[Len(results)]
            without_gc == a_star_without_gc
        IN  /\ with_gc.kind = without_gc.kind
            /\ with_gc.message = without_gc.message
            /\ with_gc.kind = "returned" =>
                   /\ with_gc.program[1].cost = without_gc.program[1].cost
                   /\ Finished \in with_gc.program[1].properties
                   /\ Finished \in without_gc.program[1].properties

\* a returned program from whose properties the GC removed something: the search
\* without the GC returns a program with more properties
C15_Witness ==
    /\ results # <<>>
    /\ results[Len(results)].kind = "returned"
    /\ Len(results[Len(results)].program[1].triple_ids) >= 2
    /\ results[Len(results)].program[1].properties # a_star_without_gc.program[1].properties

(***************************************************************************)
(* C16: for every length >= 0 and every vector of ratios that sum to 1,    *)
(* sharding_round returns one non-negative integer per ratio and the       *)
(* integers sum to exactly the length.                                     *)
(***************************************************************************)
C16_RoundSumsToLength ==
    (round_result # None /\ Sum(round_ratios) = RatioDen) =>
        /\ round_result[1].kind = "returned"
        /\ Len(round_result[1].lengths) = Len(round_ratios)
        /\ \A i \in DOMAIN round_result[1].lengths : round_result[1].lengths[i] >= 0
        /\ Sum(round_result[1].lengths) = round_length

\* a call with unequal ratios that sum to 1 whose floors fall short of the length:
\* the loop ran
C16_Witness ==
    /\ round_result # None
    /\ Sum(round_ratios) = RatioDen
    /\ Len(round_ratios) >= 2
    /\ \E i, j \in DOMAIN round_ratios : round_ratios[i] # round_ratios[j]
    /\ Sum(sharding_floors(round_length, round_ratios)) < round_length
    /\ round_result[1].kind = "returned"

(***************************************************************************)
(* C17: sharding_round fails (returns no result) when the ratios do not    *)
(* sum to 1, whether they sum to less or to more, and when the length is 0 *)
(* for a request that has ratios.                                          *)
(***************************************************************************)
C17_RoundFailsOnBadRatios ==
    round_result # None =>
        /\ Sum(round_ratios) < RatioDen => round_result[1].kind = "panic"
        /\ Sum(round_ratios) > RatioDen => round_result[1].kind = "panic"
        /\ (round_length = 0 /\ round_ratios # <<>>) => round_result[1].kind = "panic"

(***************************************************************************)
(* C18: for placeholder X (rank 2) -> sigmoid -> Output on 4 equal devices *)
(* with the triples of analyze_rgraph and no default property, the search  *)
(* returns a plan of exactly 5 triples: placeholder_shard(X, dim 0),       *)
(* sigmoid Gather(X,0) -> Gather(Y,0), an all-gather to Identity(Y), a     *)
(* bridge to Reduce(Y), and output.                                        *)
(***************************************************************************)
SigmoidGraphInput ==
    /\ rgraph = load_fx_graph(FxSigmoid).graph
    /\ initial_properties = {}
    /\ Len(cluster_info.device_flops) = 4
    /\ \A i, j \in DOMAIN cluster_info.device_flops :
            cluster_info.device_flops[i] = cluster_info.device_flops[j]

IsSigmoidPlan(p) ==
    /\ Len(p.triple_ids) = 5
    /\ LET t1 == triples[p.triple_ids[1] + 1]
           t2 == triples[p.triple_ids[2] + 1]
           t3 == triples[p.triple_ids[3] + 1]
           t4 == triples[p.triple_ids[4] + 1]
           t5 == triples[p.triple_ids[5] + 1]
       IN  /\ t1.instruction.name = "placeholder_shard"
           /\ t1.post_conditions = <<gather(0, 0)>>
           /\ t2.instruction.name = "torch.sigmoid"
           /\ t2.pre_conditions = <<gather(0, 0)>>
           /\ t2.post_conditions = <<gather(1, 0)>>
           /\ t3.pre_conditions = <<gather(1, 0)>>
           /\ t3.post_conditions = <<identity(1)>>
           /\ t4.pre_conditions = <<identity(1)>>
           /\ t4.post_conditions = <<reduce(1)>>
           /\ t5.instruction.name = "output"
           /\ t5.pre_conditions = <<reduce(1)>>
           /\ t5.post_conditions = <<Finished>>

C18_SigmoidGraphPlan ==
    SigmoidGraphInput =>
        \A r \in Range(results) :
            r.message # InteruptedMessage => r.kind = "returned" /\ IsSigmoidPlan(r.program[1])

(***************************************************************************)
(* The triples that stay within one tensor: a pre-condition, and every     *)
(* pre- and post-condition a property of that tensor.                      *)
(***************************************************************************)
TriplesWithin(tensor_id) ==
    { i \in DOMAIN triples :
        /\ triples[i].pre_conditions # <<>>
        /\ \A p \in Range(triples[i].pre_conditions) \cup Range(triples[i].post_conditions) :
              p.tag = "HasTensor" /\ p.id = tensor_id }

\* the pairs <<pre, post>> of the communication triples of a tensor of rank n
CommunicationPairs(tensor_id, n) ==
    { <<gather(tensor_id, d), identity(tensor_id)>> : d \in 0..(n - 1) }
    \cup { <<identity(tensor_id), gather(tensor_id, d)>> : d \in 0..(n - 1) }
    \cup { <<reduce(tensor_id), gather(tensor_id, d)>> : d \in 0..(n - 1) }
    \cup { <<reduce(tensor_id), identity(tensor_id)>> }
    \cup { <<gather(tensor_id, x[1]), gather(tensor_id, x[2])>> :
             x \in { y \in (0..(n - 1)) \X (0..(n - 1)) : y[1] # y[2] } }

(***************************************************************************)
(* C19: the triples of analyze_rgraph hold, for each communicatable tensor *)
(* T of rank n, exactly one triple for each of Gather(T,d) -> Identity(T), *)
(* Identity(T) -> Gather(T,d), Reduce(T) -> Gather(T,d) (d < n),           *)
(* Reduce(T) -> Identity(T) and Gather(T,i) -> Gather(T,j) (i # j), and no *)
(* other triple within T; for a tensor that is not communicatable they     *)
(* hold no triple within it.                                               *)
(***************************************************************************)
C19_CommunicationTriples ==
    triples = analyze_rgraph(rgraph, module_info) =>
        \A k \in DOMAIN rgraph.tensors :
            IF rgraph.tensors[k].communicatable
            THEN /\ \A i \in TriplesWithin(k - 1) :
                        /\ Len(triples[i].pre_conditions) = 1
                        /\ Len(triples[i].post_conditions) = 1
                        /\ <<triples[i].pre_conditions[1], triples[i].post_conditions[1]>>
                              \in CommunicationPairs(k - 1, n_dims(rgraph.tensors[k]))
                 /\ \A pair \in CommunicationPairs(k - 1, n_dims(rgraph.tensors[k])) :
                        Cardinality({ i \in TriplesWithin(k - 1) :
                                        /\ triples[i].pre_conditions = <<pair[1]>>
                                        /\ triples[i].post_conditions = <<pair[2]>> }) = 1
            ELSE TriplesWithin(k - 1) = {}

\* the analyzed graph has a communicatable tensor of rank 2 (so all_to_all triples) and
\* a tensor that is not communicatable
C19_Witness ==
    /\ rgraph.nodes # <<>>
    /\ triples = analyze_rgraph(rgraph, module_info)
    /\ \E k \in DOMAIN rgraph.tensors :
          /\ rgraph.tensors[k].communicatable
          /\ n_dims(rgraph.tensors[k]) >= 2
          /\ Cardinality(TriplesWithin(k - 1)) = 9
    /\ \E k \in DOMAIN rgraph.tensors : ~rgraph.tensors[k].communicatable

(***************************************************************************)
(* The triples with the given pre- and post-conditions.                    *)
(***************************************************************************)
TriplesFromTo(pre, post) ==
    { i \in DOMAIN triples :
        triples[i].pre_conditions = pre /\ triples[i].post_conditions = post }

SourceNodes ==
    { k \in DOMAIN rgraph.nodes : rgraph.nodes[k].instruction.kind \in {"Placeholder", "GetAttr"} }

OutputNodes == { k \in DOMAIN rgraph.nodes : rgraph.nodes[k].instruction.kind = "Output" }

(***************************************************************************)
(* C20: for every Placeholder or GetAttr node producing T of rank n the    *)
(* triples of analyze_rgraph hold exactly one {} -> {Identity(T)} and      *)
(* exactly one {} -> {Gather(T,d)} for each d < n; for the Output node     *)
(* consuming T exactly one {Reduce(T)} -> {Finished}, the only triple of   *)
(* that node; every triple has empty negative_post_conditions.             *)
(***************************************************************************)
C20_BasicTriples ==
    triples = analyze_rgraph(rgraph, module_info) =>
        /\ \A k \in SourceNodes :
              LET tensor_id == rgraph.nodes[k].outputs[1]
              IN  /\ Cardinality(TriplesFromTo(<<>>, <<identity(tensor_id)>>)) = 1
                  /\ \A d \in 0..(n_dims(rgraph.tensors[tensor_id + 1]) - 1) :
                        Cardinality(TriplesFromTo(<<>>, <<gather(tensor_id, d)>>)) = 1
        /\ \A k \in OutputNodes :
              /\ Cardinality(TriplesFromTo(<<reduce(rgraph.nodes[k].inputs[1])>>, <<Finished>>)) = 1
              /\ basic_triples(rgraph, module_info, rgraph.nodes[k]) =
                    <<triples[CHOOSE i \in TriplesFromTo(<<reduce(rgraph.nodes[k].inputs[1])>>,
                                                         <<Finished>>) : TRUE]>>
        /\ \A i \in DOMAIN triples : triples[i].negative_post_conditions = <<>>

\* the analyzed graph has a Placeholder of rank 2, a GetAttr and an Output
C20_Witness ==
    /\ triples = analyze_rgraph(rgraph, module_info)
    /\ \E k \in SourceNodes :
          /\ rgraph.nodes[k].instruction.kind = "Placeholder"
          /\ n_dims(rgraph.tensors[rgraph.nodes[k].outputs[1] + 1]) = 2
    /\ \E k \in SourceNodes : rgraph.nodes[k].instruction.kind = "GetAttr"
    /\ OutputNodes # {}
    /\ \E i \in DOMAIN triples : triples[i].pre_conditions = <<>>

(***************************************************************************)
(* The computation triples of a node: a pre-condition, every pre-condition *)
(* a property of an input of the node and every post-condition a property  *)
(* of an output of the node.                                               *)
(***************************************************************************)
OpNodes == { k \in DOMAIN rgraph.nodes : rgraph.nodes[k].instruction.kind = "Op" }

ComputationTriples(node) ==
    { i \in DOMAIN triples :
        /\ triples[i].pre_conditions # <<>>
        /\ \A p \in Range(triples[i].pre_conditions) :
              p.tag = "HasTensor" /\ p.id \in Range(node.inputs)
        /\ \A p \in Range(triples[i].post_conditions) :
              p.tag = "HasTensor" /\ p.id \in Range(node.outputs) }

\* the rows <<pre, post>> of the sharding table of the operator of an op node
TableRows(node) ==
    LET py_name == module_info.ops[node.instruction.id + 1].py_name
        X == node.inputs[1]
        Y == node.outputs[1]
        rank(t) == n_dims(rgraph.tensors[t + 1])
    IN  IF py_name = "torch.sigmoid"
        THEN { <<<<identity(X)>>, <<identity(Y)>>>> }
             \cup { <<<<gather(X, d)>>, <<gather(Y, d)>>>> : d \in 0..(rank(X) - 1) }
        ELSE IF py_name = "torch.sum"
        THEN { <<<<identity(X)>>, <<identity(Y)>>>> }
             \cup { <<<<gather(X, d)>>, <<reduce(Y)>>>> : d \in 0..(rank(X) - 1) }
             \cup { <<<<reduce(X)>>, <<reduce(Y)>>>> }
        ELSE IF py_name = "torch.nn.functional.linear"
        THEN LET W == node.inputs[2]
                 b == node.inputs[3]
             IN  { <<<<identity(X), identity(W), identity(b)>>, <<identity(Y)>>>> }
                 \cup { <<<<gather(X, d), identity(W), identity(b)>>, <<gather(Y, d)>>>> :
                          d \in 0..(rank(X) - 2) }
                 \cup { <<<<identity(X), gather(W, 0), gather(b, 0)>>, <<gather(Y, rank(Y) - 1)>>>> }
        ELSE {}

(***************************************************************************)
(* C21: for every op node the computation triples among the triples of     *)
(* analyze_rgraph are exactly the rows of the sharding table of its        *)
(* operator (sigmoid, sum, linear), one triple per row, each carrying the  *)
(* name of the operator.                                                   *)
(***************************************************************************)
C21_ComputationTriples ==
    triples = analyze_rgraph(rgraph, module_info) =>
        \A k \in OpNodes :
            LET node == rgraph.nodes[k]
            IN  /\ \A i \in ComputationTriples(node) :
                      /\ <<triples[i].pre_conditions, triples[i].post_conditions>> \in TableRows(node)
                      /\ triples[i].instruction.name = module_info.ops[node.instruction.id + 1].py_name
                /\ \A row \in TableRows(node) :
                      /\ Cardinality(TriplesFromTo(row[1], row[2])) = 1
                      /\ TriplesFromTo(row[1], row[2]) \subseteq ComputationTriples(node)

\* the analyzed graph has a linear node on an input of rank 2 and a sum node
C21_Witness ==
    /\ triples = analyze_rgraph(rgraph, module_info)
    /\ \E k \in OpNodes :
          /\ is_op(module_info, rgraph.nodes[k], "torch.nn.functional.linear")
          /\ Cardinality(ComputationTriples(rgraph.nodes[k])) = 3
    /\ \E k \in OpNodes :
          /\ is_op(module_info, rgraph.nodes[k], "torch.sum")
          /\ Cardinality(ComputationTriples(rgraph.nodes[k])) = 4

(***************************************************************************)
(* The irrelevant properties of a set S, read off the list of triples: the *)
(* properties other than Finished all of whose consuming triples have a    *)
(* pre-condition that is not in S and that no triple produces.             *)
(***************************************************************************)
Unproduced(q) == \A id \in TripleIds : q \notin Range(triples[id + 1].post_conditions)

Irrelevant(S) ==
    { p \in S \ {Finished} :
        \A id \in TripleIds :
            p \in Range(triples[id + 1].pre_conditions) =>
                \E q \in Range(triples[id + 1].pre_conditions) : q \notin S /\ Unproduced(q) }

(***************************************************************************)
(* C22: remove_irrelavent_properties removes from S exactly the            *)
(* irrelevant properties of S, judged against S as it was before any       *)
(* removal; Finished is never removed and no property is added.            *)
(***************************************************************************)
C22_GcRemovesExactlyIrrelevant ==
    pc = "loop" =>
        \A S \in GcArguments :
            /\ Removed(S) = Irrelevant(S)
            /\ remove_irrelavent_properties(S, triple_set) \subseteq S
            /\ Finished \in S => Finished \in remove_irrelavent_properties(S, triple_set)

\* the GC is handed a set holding Finished, removes another property of it and
\* keeps Finished, which no triple consumes
C22_Witness ==
    /\ pc = "loop"
    /\ \E S \in GcArguments :
          /\ Finished \in S
          /\ Removed(S) # {}
          /\ Finished \in remove_irrelavent_properties(S, triple_set)
          /\ get_triples_with_pre_condition(triple_set, Finished) = <<>>

(***************************************************************************)
(* A step of the loop that pops: the heap changes, and the program popped  *)
(* is the one heap_pop yields.                                             *)
(***************************************************************************)
PopStep == LoopStep /\ heap # <<>> /\ heap' # heap

Popped == heap_pop(heap).item.program

(***************************************************************************)
(* C23: once a complete program best is recorded, a popped program whose   *)
(* cost is at least best.cost (equal cost included) is skipped: nothing is *)
(* pushed or cached for it and best stays; best is only replaced by a      *)
(* complete program of strictly lower cost.                                *)
(***************************************************************************)
C23_SkippedAtOrAboveBest ==
    [][ /\ (PopStep /\ best_program # None /\ Popped.cost >= best_program[1].cost) =>
              /\ Pushed = {}
              /\ property_cache' = property_cache
              /\ best_program' = best_program
        /\ (PopStep /\ best_program # None /\ best_program' # best_program) =>
              /\ best_program' = Some(Popped)
              /\ is_complete(Popped)
              /\ Popped.cost < best_program[1].cost ]_vars

(***************************************************************************)
(* The successors of the popped program: with_a_new_triple for each of its *)
(* available triples.                                                      *)
(***************************************************************************)
Successors ==
    { with_a_new_triple(Popped, id, triple_set, Profiler) :
        id \in Range(find_available_triples(Popped, triple_set)) }

(***************************************************************************)
(* C24: in a step of the loop a successor P' is pushed, and the cache      *)
(* entry of P'.properties set to P'.cost, only if the cache had no entry   *)
(* for P'.properties or a strictly greater one; no other cache entry       *)
(* changes; a successor whose property set is cached at a cost <= P'.cost  *)
(* is not pushed; and a popped program whose cached cost is strictly lower *)
(* than its own is skipped.                                                *)
(***************************************************************************)
C24_DominancePruning ==
    [][ PopStep =>
          /\ Pushed \subseteq Successors
          /\ \A e \in Pushed :
                /\ e.properties \notin DOMAIN property_cache
                      \/ property_cache[e.properties] > e.cost
                /\ property_cache'[e.properties] = e.cost
          /\ \A s \in DOMAIN property_cache' :
                \/ s \in DOMAIN property_cache /\ property_cache'[s] = property_cache[s]
                \/ \E e \in Pushed : e.properties = s
          /\ \A e \in Successors :
                (e.properties \in DOMAIN property_cache /\ property_cache[e.properties] <= e.cost)
                    => e \notin Pushed
          /\ \A e, f \in Pushed : e.properties = f.properties => e = f
          /\ superseded(property_cache, Popped) =>
                /\ Pushed = {}
                /\ property_cache' = property_cache
                /\ best_program' = best_program
                /\ iter_count' = iter_count ]_vars

\* an expansion has just pushed a successor and discarded another one, whose property
\* set was cached at a cost that is not greater
C24_Witness ==
    /\ pc = "loop"
    /\ program # None
    /\ Children # {}
    /\ \E id \in Range(find_available_triples(program[1], triple_set)) :
          LET e == with_a_new_triple(program[1], id, triple_set, Profiler)
          IN  /\ e \notin HeapPrograms
              /\ property_cache[e.properties] <= e.cost

(***************************************************************************)
(* C25: every pop of the loop removes a program whose cost + ecost is      *)
(* minimal among the programs of the heap at that moment, and the heap     *)
(* left holds the other entries.                                           *)
(***************************************************************************)
C25_PopsMinimalTotalCost ==
    [][ PopStep =>
          /\ program' = Some(Popped)
          /\ \A i \in DOMAIN heap :
                Popped.cost + Popped.ecost <= heap[i].program.cost + heap[i].program.ecost
          /\ \A i \in DOMAIN heap : heap[i].total_cost = heap[i].program.cost + heap[i].program.ecost
          /\ HeapPrograms \ {Popped} \subseteq { heap'[i].program : i \in DOMAIN heap' }
          /\ Len(heap_pop(heap).heap) = Len(heap) - 1 ]_vars

\* a pop has just taken a program out of a heap that still holds three entries, of two
\* different total costs, all at least the total cost of the program popped
C25_Witness ==
    /\ pc = "loop"
    /\ program # None
    /\ Len(heap) >= 3
    /\ \E i, j \in DOMAIN heap : heap[i].total_cost < heap[j].total_cost
    /\ \A i \in DOMAIN heap : program[1].cost + program[1].ecost <= heap[i].total_cost
    /\ \E i \in DOMAIN heap : program[1].cost + program[1].ecost = heap[i].total_cost

(***************************************************************************)
(* The rounding with ties going to the smallest index: the same seed and   *)
(* the same loop as sharding_round, with the first of the maximal buckets  *)
(* incremented.                                                            *)
(***************************************************************************)
FirstMaxDiffIndex(full_length, sharding_ratios, sharding_lengths) ==
    LET key(i) == sharding_ratios[i] * full_length - sharding_lengths[i] * RatioDen
    IN  Min({ i \in DOMAIN sharding_ratios :
                \A j \in DOMAIN sharding_ratios : key(j) <= key(i) })

RECURSIVE RoundWithFirstMax(_, _, _)
RoundWithFirstMax(full_length, sharding_ratios, sharding_lengths) ==
    IF Sum(sharding_lengths) < full_length
    THEN RoundWithFirstMax(full_length, sharding_ratios,
            [sharding_lengths EXCEPT
                ![FirstMaxDiffIndex(full_length, sharding_ratios, sharding_lengths)] = @ + 1])
    ELSE sharding_lengths

(***************************************************************************)
(* C26: for ratios that sum to 1, sharding_round returns the floors of     *)
(* length * ratio_i incremented, while their sum is below the length, at   *)
(* the bucket maximizing ratio_i - length_i / length, the smallest index   *)
(* winning a tie.                                                          *)
(***************************************************************************)
C26_TieGoesToSmallestIndex ==
    (round_result # None /\ Sum(round_ratios) = RatioDen) =>
        /\ round_result[1].kind = "returned"
        /\ round_result[1].lengths =
              RoundWithFirstMax(round_length, round_ratios, sharding_floors(round_length, round_ratios))

(***************************************************************************)
(* C27: every pop of the loop is counted, the progress line is written     *)
(* when the count reaches a multiple of 5000, and exactly one more         *)
(* progress line is written when the call ends, whether it returns a       *)
(* program, fails on an empty heap or is interrupted.                      *)
(***************************************************************************)
C27_ProgressCountsEveryPop ==
    [][ /\ PopStep =>
              /\ iter_count' = iter_count + 1
              /\ stderr' = stderr \o (IF iter_count' % iter_per_print = 0
                                      THEN <<TickerLine(iter_count')>> ELSE <<>>)
        /\ (pc = "loop" /\ pc' = "idle") =>
              /\ Len(stderr') > Len(stderr)
              /\ SubSeq(stderr', 1, Len(stderr)) = stderr
              /\ Cardinality({ i \in (Len(stderr) + 1)..Len(stderr') :
                                 stderr'[i].kind = "ticker" }) = 1 ]_vars

(***************************************************************************)
(* C28: the interrupt handler is installed at most once per process: a     *)
(* second initialization of the module does not call the installer again.  *)
(***************************************************************************)
C28_HandlerInstalledOnce == set_handler_calls <= 1

(***************************************************************************)
(* C29: after any sequence of node additions by the loader, every tensor T *)
(* is among the outputs of exactly one node, its producer; every node      *)
(* listed in T.consumers has T among its inputs; and at most one node has  *)
(* the instruction Output.                                                 *)
(***************************************************************************)
C29_LoaderGraphInvariant ==
    LET graph == parser_ctx.graph
    IN  /\ \A t \in DOMAIN graph.tensors :
              /\ { n \in DOMAIN graph.nodes : (t - 1) \in Range(graph.nodes[n].outputs) }
                    = { graph.tensors[t].producer + 1 }
              /\ \A c \in Range(graph.tensors[t].consumers) :
                    /\ c + 1 \in DOMAIN graph.nodes
                    /\ (t - 1) \in Range(graph.nodes[c + 1].inputs)
        /\ Cardinality({ n \in DOMAIN graph.nodes : graph.nodes[n].instruction.kind = "Output" }) <= 1

\* the loader has built a graph with an output node and a tensor with two consumers,
\* one of them the output node, and has then rejected a node
C29_Witness ==
    /\ parser_ctx.panicked
    /\ has_output(parser_ctx.graph)
    /\ \E t \in DOMAIN parser_ctx.graph.tensors :
          /\ Len(parser_ctx.graph.tensors[t].consumers) >= 2
          /\ \E c \in Range(parser_ctx.graph.tensors[t].consumers) :
                parser_ctx.graph.nodes[c + 1].instruction.kind = "Output"

(***************************************************************************)
(* C30: at every point of the search every program P of the heap has a     *)
(* cache entry for P.properties whose value is at most P.cost; from one    *)
(* step of the loop to the next no cache entry is deleted and no value     *)
(* increases.                                                              *)
(***************************************************************************)
C30_HeapProgramsAreCached ==
    [][ /\ pc' = "loop" =>
              \A i \in DOMAIN heap' :
                  /\ heap'[i].program.properties \in DOMAIN property_cache'
                  /\ property_cache'[heap'[i].program.properties] <= heap'[i].program.cost
        /\ LoopStep =>
              \A s \in DOMAIN property_cache :
                  /\ s \in DOMAIN property_cache'
                  /\ property_cache'[s] <= property_cache[s] ]_vars

\* the heap holds several programs and the cache still holds the entries of property
\* sets whose programs have been popped
C30_Witness ==
    /\ pc = "loop"
    /\ Len(heap) >= 2
    /\ Cardinality(DOMAIN property_cache) >= Len(heap) + 2
    /\ \E s \in DOMAIN property_cache : \A e \in HeapPrograms : e.properties # s
    /\ \A e \in HeapPrograms : property_cache[e.properties] <= e.cost

(***************************************************************************)
(* C31: during one run of a_star each distinct property set is expanded at *)
(* most once: the property sets of the programs that reached the for loop  *)
(* over find_available_triples are pairwise different, and a program that  *)
(* reaches the loop has a property set that no earlier one had.            *)
(***************************************************************************)
C31_ExpandedAtMostOnce ==
    /\ \A i, j \in DOMAIN expanded : expanded[i] = expanded[j] => i = j
    /\ pc = "loop" =>
          \A e \in HeapPrograms :
              (~is_complete(e) /\ ~skipped(best_program, property_cache, e)) =>
                  \A i \in DOMAIN expanded : expanded[i] # e.properties

\* three programs have been expanded, and a triple available to the program expanded last
\* leads back to a property set that was expanded before: its successor was discarded
C31_Witness ==
    /\ pc = "loop"
    /\ Len(expanded) >= 3
    /\ program # None
    /\ program[1].properties = expanded[Len(expanded)]
    /\ \E id \in Range(find_available_triples(program[1], triple_set)) :
          LET e == with_a_new_triple(program[1], id, triple_set, Profiler)
          IN  /\ e.properties \in Range(expanded)
              /\ e \notin HeapPrograms

(***************************************************************************)
(* C32: the programs of a run are popped in non-decreasing order of cost;  *)
(* the first complete program popped becomes best_program, and once        *)
(* best_program is set no later pop replaces it.                           *)
(***************************************************************************)
C32_FirstCompleteStaysBest ==
    [][ PopStep =>
          /\ program # None => program[1].cost <= Popped.cost
          /\ (best_program = None /\ is_complete(Popped)) => best_program' = Some(Popped)
          /\ (best_program = None /\ ~is_complete(Popped)) => best_program' = None
          /\ best_program # None => best_program' = best_program ]_vars

\* a complete program other than best_program has just been popped, at a cost that is
\* not lower, and best_program is still the complete program popped first
C32_Witness ==
    /\ pc = "loop"
    /\ best_program # None
    /\ program # None
    /\ is_complete(program[1])
    /\ program[1] # best_program[1]
    /\ program[1].cost >= best_program[1].cost

(***************************************************************************)
(* The replay of a sequence of triple ids from the initial properties:     *)
(* with_a_new_triple folded over the ids; ok tells that each triple had    *)
(* all its pre-conditions and lacked one of its post-conditions in the     *)
(* property set produced by the ids before it.                             *)
(***************************************************************************)
RECURSIVE Replay(_, _, _)
Replay(ids, k, st) ==
    IF k > Len(ids) THEN st
    ELSE LET triple == triple_at(triple_set, ids[k])
             available ==
                 /\ \A p \in Range(triple.pre_conditions) : p \in st.program.properties
                 /\ \E p \in Range(triple.post_conditions) : p \notin st.program.properties
         IN  Replay(ids, k + 1,
                    [program |-> with_a_new_triple(st.program, ids[k], triple_set, Profiler),
                     ok |-> st.ok /\ available])

ValidPlan(p) ==
    LET r == Replay(p.triple_ids, 1, [program |-> Program_empty(initial_properties), ok |-> TRUE])
    IN  /\ \A k \in DOMAIN p.triple_ids : p.triple_ids[k] \in TripleIds
        /\ r.ok
        /\ r.program = p

(***************************************************************************)
(* C33: every program on the heap, and the program popped last, is a valid *)
(* plan: with_a_new_triple folded over its triple_ids from the initial     *)
(* properties reproduces the program, and each triple of the sequence was  *)
(* available (all pre-conditions present, some post-condition absent) in   *)
(* the property set produced by the triples before it.                     *)
(***************************************************************************)
C33_HeapProgramsAreValidPlans ==
    pc = "loop" => \A p \in SearchPrograms : ValidPlan(p)

\* the heap holds a plan of at least two triples whose replay removes a property on the way
C33_Witness ==
    /\ pc = "loop"
    /\ \E p \in HeapPrograms :
          /\ Len(p.triple_ids) >= 2
          /\ ValidPlan(p)
          /\ \E q \in initial_properties : q \notin p.properties

(***************************************************************************)
(* The property sets of the programs of at most k triples that             *)
(* find_available_triples and with_a_new_triple build from the seed, with  *)
(* no program left out by the cache or by best_program.                    *)
(***************************************************************************)
BuiltStep(sets) ==
    sets \cup { with_a_new_triple(Program_empty(x[1]), x[2], triple_set, Profiler).properties :
                x \in { y \in sets \X TripleIds :
                          y[2] \in Range(find_available_triples(Program_empty(y[1]), triple_set)) } }

RECURSIVE BuiltWithin(_)
BuiltWithin(k) == IF k <= 0 THEN {initial_properties} ELSE BuiltStep(BuiltWithin(k - 1))

\* the call that ended last returned a program
LastReturned == pc = "idle" /\ results # <<>> /\ results[Len(results)].kind = "returned"

MaxUniverse == 8

GcDomain ==
    IF program = None /\ Cardinality(PropertyUniverse) <= MaxUniverse
    THEN SUBSET PropertyUniverse
    ELSE GcArguments \cup { p.properties : p \in SearchPrograms }

(***************************************************************************)
(* C35: remove_irrelavent_properties is idempotent: applied to its own     *)
(* result it removes nothing more, for every property set and every        *)
(* triple set.                                                             *)
(***************************************************************************)
C35_GcIsIdempotent ==
    pc = "loop" =>
        \A S \in GcDomain :
            LET once == remove_irrelavent_properties(S, triple_set)
            IN  remove_irrelavent_properties(once, triple_set) = once

\* the GC removes two properties of a set, one of them consumed by a blocked triple, and
\* keeps a property other than Finished
C35_Witness ==
    /\ pc = "loop"
    /\ \E S \in GcDomain :
          /\ Cardinality(Removed(S)) >= 2
          /\ \E p \in Removed(S) : get_triples_with_pre_condition(triple_set, p) # <<>>
          /\ \E p \in remove_irrelavent_properties(S, triple_set) : p # Finished

\* the properties that are a pre-condition of no triple
Unconsumed == { p \in PropertyUniverse : \A i \in DOMAIN triples : p \notin Range(triples[i].pre_conditions) }

(***************************************************************************)
(* C36: a property other than Finished that is a pre-condition of no       *)
(* triple is removed by the GC of every with_a_new_triple, so it occurs in *)
(* the properties of no program other than the seed; the seed keeps the    *)
(* initial properties, with no GC applied.                                 *)
(***************************************************************************)
C36_UnconsumedOnlyInSeed ==
    /\ pc = "loop" =>
          \A P \in SearchPrograms :
              IF P.triple_ids = <<>>
              THEN P.properties = initial_properties
              ELSE P.properties \cap Unconsumed \subseteq {Finished}
    /\ \A r \in ReturnedResults : r.program[1].properties \cap Unconsumed \subseteq {Finished}
    /\ pc = "loop" =>
          \A S \in GcArguments :
              remove_irrelavent_properties(S, triple_set) \cap Unconsumed \subseteq {Finished}

\* the seed held an initial property that no triple consumes, and the heap holds a program
\* that fired a triple producing another such property: it keeps neither of them
C36_Witness ==
    /\ pc = "loop"
    /\ \E p \in initial_properties : p \in Unconsumed /\ p # Finished
    /\ \E P \in HeapPrograms :
          /\ P.triple_ids # <<>>
          /\ \E k \in DOMAIN P.triple_ids :
                \E p \in Range(triples[P.triple_ids[k] + 1].post_conditions) :
                    p \in Unconsumed /\ p # Finished
          /\ P.properties \cap Unconsumed \subseteq {Finished}

(***************************************************************************)
(* C37: the flag, once set by the handler, is never cleared, and a call of *)
(* a_star made while it is set holds the seed only and ends at its first   *)
(* pop with the panic "interupted", before any program is expanded: the    *)
(* ticker dropped by the panic has counted no iteration.                   *)
(***************************************************************************)
C37_FlagStaysSet ==
    [][ /\ CTRLC_RECEIVED => CTRLC_RECEIVED'
        /\ (pc = "idle" /\ pc' = "loop" /\ CTRLC_RECEIVED) =>
              /\ program' = None
              /\ expanded' = <<>>
              /\ HeapPrograms' = {Program_empty(initial_properties)}
        /\ (pc = "loop" /\ program = None /\ CTRLC_RECEIVED) =>
              /\ expanded = <<>>
              /\ iter_count = 0
              /\ pc' = "idle"
              /\ results' = Append(results, Panic(InteruptedMessage, None))
              /\ stderr' = Append(stderr, TickerLine(0)) ]_vars

\* the first call was interrupted after some iterations, and the second call of the same
\* process ended at its first pop
C37_Witness ==
    /\ pc = "idle"
    /\ CTRLC_RECEIVED
    /\ Len(results) = 2
    /\ results[1].message = InteruptedMessage
    /\ results[2].message = InteruptedMessage
    /\ Len(stderr) = 2
    /\ stderr[1].kind = "ticker" /\ stderr[1].iter_count > 0
    /\ stderr[2] = TickerLine(0)

(***************************************************************************)
(* C38: with the cancellation flag never set the loop of a_star            *)
(* terminates: from every state of the loop the heap eventually becomes    *)
(* empty; with the heap empty the only step is the end of the call, which  *)
(* returns best_program or fails on best_program = None (infeasible); and  *)
(* that step is eventually taken.                                          *)
(***************************************************************************)
C38_LoopTerminates ==
    /\ (pc = "loop") ~> (pc = "loop" /\ heap = <<>>)
    /\ (pc = "loop" /\ heap = <<>>) ~> (pc = "idle")
    /\ [][ (pc = "loop" /\ heap = <<>>) =>
              /\ pc' = "idle"
              /\ results' = Append(results, IF best_program = None
                                            THEN Panic(UnwrapNoneMessage, None)
                                            ELSE Returned(best_program[1])) ]_vars
    /\ [](~CTRLC_RECEIVED)

\* the heap has become empty after three expansions, one of them of a property set from
\* which a triple leads back to a set expanded before (the property sets form a cycle)
C38_Witness ==
    /\ pc = "loop"
    /\ heap = <<>>
    /\ ~CTRLC_RECEIVED
    /\ Len(expanded) >= 3
    /\ \E k \in DOMAIN expanded :
          \E id \in Range(find_available_triples(Program_empty(expanded[k]), triple_set)) :
              with_a_new_triple(Program_empty(expanded[k]), id, triple_set, Profiler).properties
                  \in { expanded[j] : j \in 1..k }

====
